---- MODULE Spec2Model ----
(***************************************************************************)
(* Pricing and checkout core of store-backend-v2: the discount engine      *)
(* (discounts/engine.py), the cart-to-order transaction                    *)
(* (orders/services.py) and the restocking hook (orders/models.py).        *)
(*                                                                         *)
(* Money is an integer number of 1/10000 currency units, so that the       *)
(* Decimal arithmetic of the engine (percentages, profit shares) is exact  *)
(* on the prices and rates drawn here.  Shares and percentages are in      *)
(* hundredths.  NoneInt stands for Python's None in a numeric field.       *)
(***************************************************************************)
EXTENDS Integers, Sequences, FiniteSets, TLC

VARIABLES
    stock,        \* ProductVariant.stock, per variant (the row as the lock holder sees it)
    cost_price,   \* ProductVariant.cost_price, per variant
    carts,        \* Cart rows with their CartItem lines
    discounts,    \* Discount rows, in the order Discount.objects.all() yields them
    now,          \* timezone.now(), in minutes
    profile,      \* ShippingAddress row of each user
    orders,       \* Order rows with their OrderLines, one slot per create_from_cart call
    txn,          \* the create_from_cart calls: arguments, position, locks, undo data
    rs,           \* the process_restocking calls: loaded order, position
    restocked,    \* history: units added to each variant by restocking, per order
    stock0,       \* history: the stock of each variant in the initial state
    preview,      \* result of the last DiscountEngine.apply_discounts preview call
    tiers,        \* TieredPrice rows of the tiered variant
    resolved,     \* result of the last resolve_price call
    tier_saved,   \* outcome of the last TieredPriceSerializer create or update
    return_requests,  \* ReturnRequest rows with their lines, in creation order
    last_return,  \* outcome of the last return-request submission
    account,      \* the customer's User row: "none", "inactive" or "active"
    otps,         \* OTPVerification rows of the customer, purpose activation
    otp_seq,      \* number of OTPVerification rows created so far
    attempts,     \* cache entry otp_verify_attempts:activation:<phone>
    clock,        \* timezone.now() of the account service, in seconds
    req,          \* the verify-otp requests: position, posted code, values read
    successes     \* history: successful verifications, per OTPVerification row

vars == <<stock, cost_price, carts, discounts, now, profile, orders, txn, rs,
          restocked, stock0, preview, tiers, resolved, tier_saved,
          return_requests, last_return, account, otps, otp_seq, attempts, clock,
          req, successes>>

\* The state of the checkout and of the discount preview.
checkoutVars == <<stock, cost_price, carts, discounts, now, profile, orders, txn, rs,
                  restocked, stock0, preview>>
\* The state of the tier catalogue and of the return requests.
catalogVars == <<tiers, resolved, tier_saved, return_requests, last_return>>
\* The state of the account service.
accountVars == <<account, otps, otp_seq, attempts, clock, req, successes>>

-----------------------------------------------------------------------------
(* Bounds of the model *)

MaxStock == 2
MaxQty == 2
NumDiscounts == 2
MaxTierValue == 3
MaxReturns == 2
MaxOtps == 2
MaxTicks == 2

(* Program constants *)

GLOBAL_MAX_PROFIT_SHARE == 25

NoneInt == 0 - 1
Money(c) == c * 10000

Variants == {1, 2}
Bundles == {1, 2}
Users == {1, 2, 3}
Carts == {1, 2, 3, 4}
Txns == {1, 2}
Restockers == {1, 2}

\* Decimal division by 100.
Hundredth(x) == x \div 100

Min2(a, b) == IF a <= b THEN a ELSE b
Max2(a, b) == IF a >= b THEN a ELSE b

-----------------------------------------------------------------------------
(* Catalog *)

\* BundleItem rows of each bundle, in the order bundle.items yields them.
BundleItems(b) ==
    IF b = 1
    THEN << [variant |-> 1, quantity |-> 1], [variant |-> 2, quantity |-> 1] >>
    ELSE << [variant |-> 2, quantity |-> 1], [variant |-> 1, quantity |-> 2] >>

VariantLine(v, q, p) ==
    [line_type |-> "variant", variant |-> v, bundle |-> 0, quantity |-> q, unit_price |-> p]
BundleLine(b, q, p) ==
    [line_type |-> "bundle", variant |-> 0, bundle |-> b, quantity |-> q, unit_price |-> p]

-----------------------------------------------------------------------------
(* DiscountEngine *)

RECURSIVE SumOriginal(_)
SumOriginal(items) ==
    IF items = << >> THEN 0
    ELSE Head(items).unit_price * Head(items).quantity + SumOriginal(Tail(items))

RECURSIVE SumCost(_, _)
SumCost(items, cost) ==
    IF items = << >> THEN 0
    ELSE (IF Head(items).variant # 0
          THEN cost[Head(items).variant] * Head(items).quantity
          ELSE 0) + SumCost(Tail(items), cost)

ProfitIgnoringCost(items, cost) == SumOriginal(items)

compute_profit(items, cost) ==
    Max2(SumOriginal(items) - SumCost(items, cost), 0)

compute_cart_totals_and_profit(items, cost) ==
    [original_total |-> SumOriginal(items),
     cost_total     |-> SumCost(items, cost),
     profit         |-> compute_profit(items, cost)]

\* str.lower() on the coupon codes of the model.
Lower(s) == IF s = "SAVE" THEN "save" ELSE s

ActiveIgnoringSchedule(d, t) == d.is_active

\* Discount.is_currently_active
is_currently_active(d, t) ==
    /\ d.is_active
    /\ ~(d.starts_at # NoneInt /\ t < d.starts_at)
    /\ ~(d.ends_at # NoneInt /\ t > d.ends_at)

\* d.code.lower() on a coupon row whose code is NULL raises AttributeError.
EligibilityRaises(d, coupon_code, t) ==
    /\ is_currently_active(d, t)
    /\ d.discount_type = "coupon"
    /\ coupon_code # ""
    /\ d.code = "None"

IsEligible(d, cart, coupon_code, cost, t) ==
    /\ is_currently_active(d, t)
    /\ d.discount_type = "coupon" =>
          (coupon_code # "" /\ Lower(d.code) = Lower(coupon_code))
    /\ ~(d.min_cart_subtotal # NoneInt
         /\ SumOriginal(cart.items) < d.min_cart_subtotal)
    /\ (d.discount_type = "abandoned_cart" /\ d.min_abandoned_minutes # NoneInt) =>
          (cart.updated_at # NoneInt
           /\ t - cart.updated_at >= d.min_abandoned_minutes)

InsertUnsorted(d, sorted) == << d >> \o sorted

\* list.sort(key=priority): stable insertion into an already sorted list.
RECURSIVE InsertByPriority(_, _)
InsertByPriority(d, sorted) ==
    IF sorted = << >> THEN << d >>
    ELSE IF Head(sorted).priority <= d.priority
         THEN << Head(sorted) >> \o InsertByPriority(d, Tail(sorted))
         ELSE << d >> \o sorted

RECURSIVE SortByPriority(_)
SortByPriority(ds) ==
    IF ds = << >> THEN << >>
    ELSE InsertByPriority(ds[Len(ds)], SortByPriority(SubSeq(ds, 1, Len(ds) - 1)))

eligible_discounts(cart, coupon_code, ds, cost, t) ==
    SortByPriority(SelectSeq(ds, LAMBDA d : IsEligible(d, cart, coupon_code, cost, t)))

\* The loop of _eligible_discounts raises as soon as it meets a row on which
\* d.code.lower() fails.
eligible_raises(coupon_code, ds, t) ==
    \E i \in 1..Len(ds) : EligibilityRaises(ds[i], coupon_code, t)

\* A cart line the product_override / flash_sale branch does not skip.  On such
\* a line the code reads discount.override_price, a field the Discount model does
\* not have (discounts/models.py:75-81 is commented out): AttributeError.
QualifyingLine(d, item) ==
    /\ item.variant # 0
    /\ (d.target_variants = {} \/ item.variant \in d.target_variants)

calculate_raises(d, items) ==
    /\ d.discount_type \in {"product_override", "flash_sale"}
    /\ \E i \in 1..Len(items) : QualifyingLine(d, items[i])

calculate_discount_amount(d, items, current_total) ==
    IF d.discount_type \in {"product_override", "flash_sale"}
    THEN 0
    ELSE IF d.discount_type \in {"cart_subtotal", "coupon", "abandoned_cart"}
         THEN Max2(IF d.value_type = "percent"
                   THEN Hundredth(current_total * d.value)
                   ELSE Min2(Money(d.value), current_total), 0)
         ELSE 0

AllowedIgnoringGlobalRoom(d, profit_before, remaining_global_room) ==
    Hundredth(profit_before * Min2(d.max_profit_share, GLOBAL_MAX_PROFIT_SHARE))

allowed_for_this(d, profit_before, remaining_global_room) ==
    Min2(Hundredth(profit_before * Min2(d.max_profit_share, GLOBAL_MAX_PROFIT_SHARE)),
         remaining_global_room)

StopsNever(d) == FALSE

stops_after(d) == d.exclusive \/ ~d.stackable

EntryOfRawValue(d, amount) ==
    [id |-> d.id, type |-> d.discount_type, value_type |-> d.value_type,
     value |-> d.value, applied_amount |-> Money(d.value), priority |-> d.priority]

\* The dict appended to applied_discounts, engine.py:141-151
AppliedEntry(d, amount) ==
    [id |-> d.id, type |-> d.discount_type, value_type |-> d.value_type,
     value |-> d.value, applied_amount |-> amount, priority |-> d.priority]

\* The for-loop of apply_discounts over the sorted eligible list ds, from the
\* loop state st = [current_total, used, applied, raised].
RECURSIVE ApplyLoop(_, _, _, _)
ApplyLoop(ds, items, profit_before, st) ==
    IF ds = << >> THEN st
    ELSE
      LET d == Head(ds)
          global_max_discount == Hundredth(profit_before * GLOBAL_MAX_PROFIT_SHARE)
          remaining_global_room == global_max_discount - st.used
          allowed == allowed_for_this(d, profit_before, remaining_global_room)
          amount == Min2(calculate_discount_amount(d, items, st.current_total), allowed)
      IN  IF remaining_global_room <= 0 THEN st
          ELSE IF allowed <= 0 THEN ApplyLoop(Tail(ds), items, profit_before, st)
          ELSE IF calculate_raises(d, items) THEN [st EXCEPT !.raised = TRUE]
          ELSE IF amount <= 0 THEN ApplyLoop(Tail(ds), items, profit_before, st)
          ELSE LET st2 == [st EXCEPT !.current_total = @ - amount,
                                     !.used = @ + amount,
                                     !.applied = Append(@, AppliedEntry(d, amount))]
               IN  IF stops_after(d) THEN st2
                   ELSE ApplyLoop(Tail(ds), items, profit_before, st2)

EngineResult(raised, original_total, discounted_total, applied, total_discount, profit_before, profit_after) ==
    [raised |-> raised, original_total |-> original_total,
     discounted_total |-> discounted_total, applied_discounts |-> applied,
     total_discount |-> total_discount, profit_before |-> profit_before,
     profit_after |-> profit_after]

NoResult == EngineResult(FALSE, 0, 0, << >>, 0, 0, 0)

apply_discounts(cart, coupon_code, ds, cost, t) ==
    LET tot == compute_cart_totals_and_profit(cart.items, cost)
    IN  IF tot.profit <= 0
        THEN EngineResult(FALSE, tot.original_total, tot.original_total, << >>, 0,
                          tot.profit, tot.profit)
        ELSE IF eligible_raises(coupon_code, ds, t)
        THEN EngineResult(TRUE, 0, 0, << >>, 0, 0, 0)
        ELSE
          LET st == ApplyLoop(eligible_discounts(cart, coupon_code, ds, cost, t),
                              cart.items, tot.profit,
                              [current_total |-> tot.original_total, used |-> 0,
                               applied |-> << >>, raised |-> FALSE])
          IN  IF st.raised
              THEN EngineResult(TRUE, 0, 0, << >>, 0, 0, 0)
              ELSE EngineResult(FALSE, tot.original_total, Max2(st.current_total, 0),
                                st.applied, st.used, tot.profit,
                                Max2(st.current_total - tot.cost_total, 0))

-----------------------------------------------------------------------------
(* Rows and call records *)

OrderTypes == {"normal", "wholesale", "replacement", "exchange", "cancellation"}

NoProfile ==
    [exists |-> FALSE, city_id |-> 0, city |-> "", region_id |-> 0, region |-> "",
     location |-> "", client_mobile2 |-> ""]

NoShippingData ==
    [city_id |-> NoneInt, city |-> "", region_id |-> NoneInt, region |-> "",
     location |-> "", client_mobile2 |-> ""]

NoOrder ==
    [state |-> "none", cart |-> 0, customer |-> 0, created_by |-> 0,
     order_type |-> "normal", delivery_method |-> "delivery",
     is_free_shipping |-> FALSE, shipping_cost |-> 0, items_total |-> 0,
     discount_total |-> 0, grand_total |-> 0, applied_discounts |-> << >>,
     engine_discount_total |-> 0, extra_manual_discount |-> 0,
     has_breakdown |-> FALSE, profit_before |-> 0, profit_after |-> 0,
     shipping_profile |-> 0, city_id |-> 0, city |-> "", region_id |-> 0,
     region |-> "", location |-> "", client_mobile2 |-> "", lines |-> << >>,
     restock_processed |-> FALSE]

IdleTxn ==
    [pc |-> "idle", cart |-> 0, order_type |-> "normal", created_by |-> 0,
     delivery_method |-> "delivery", shipping_data |-> NoShippingData,
     is_free_shipping |-> FALSE, shipping_cost |-> 0, extra_manual_discount |-> 0,
     coupon_code |-> "", line |-> 0, item |-> 0,
     dec |-> [v \in Variants |-> 0], locks |-> {},
     profile |-> NoProfile, wrote_profile |-> FALSE, old_profile |-> NoProfile,
     discounted_total |-> 0, items_total_after_all_discounts |-> 0,
     result |-> ""]

\* concurrent: history, another call on the same order was under way at the load.
IdleRestock == [pc |-> "idle", order |-> 0, line |-> 0, item |-> 0, concurrent |-> FALSE]

NoPreview == [cart |-> 0, coupon_code |-> "", result |-> NoResult]

NoResolve ==
    [sale_price |-> NoneInt, basis |-> "None", tier_id |-> NoneInt,
     quantity |-> NoneInt, weight |-> NoneInt]

\* No tier, no resolve_price call and no return request yet.
CatalogIdle ==
    /\ tiers = {}
    /\ resolved = NoResolve
    /\ tier_saved = ""
    /\ return_requests = << >>
    /\ last_return = ""

\* OTPService constants.
COOLDOWN_SECONDS == 60
EXPIRY_MINUTES == 5
MAX_VERIFY_ATTEMPTS == 5
BLOCK_SECONDS == 10 * 60

\* The clock of the account service moves in steps of five minutes.
TickSeconds == 300

Verifiers == {1, 2}
\* generate_code() draws one of these; WrongCode is a code it never draws.
Codes == {1, 2}
WrongCode == 0

NoEntry == [value |-> 0, expires |-> 0]
NoOtp == [id |-> 0, otp_code |-> WrongCode, created_at |-> 0, expires_at |-> 0,
          is_used |-> FALSE]
NoRequest == [pc |-> "idle", code |-> WrongCode, attempts |-> 0, otp_entry |-> NoOtp]

AccountIdle ==
    /\ account = "none"
    /\ otps = {}
    /\ otp_seq = 0
    /\ attempts = NoEntry
    /\ clock = 0
    /\ req = [p \in Verifiers |-> NoRequest]
    /\ successes = [id \in 1..(MaxOtps + 1) |-> 0]

-----------------------------------------------------------------------------
(* Discount preview: ApplyDiscountRequestSerializer.create *)

CouponInputs == {"", "save", "other"}

PreviewConsumesDiscount(c, coupon) ==
    /\ preview' = [cart |-> c, coupon_code |-> coupon,
                   result |-> apply_discounts(carts[c], coupon, discounts, cost_price, now)]
    /\ discounts' = IF discounts = << >> THEN discounts ELSE Tail(discounts)
    /\ UNCHANGED <<accountVars, catalogVars, stock, cost_price, carts, now, profile, orders, txn, rs,
                   restocked, stock0>>

Preview(c, coupon) ==
    /\ preview' = [cart |-> c, coupon_code |-> coupon,
                   result |-> apply_discounts(carts[c], coupon, discounts, cost_price, now)]
    /\ UNCHANGED <<accountVars, catalogVars, stock, cost_price, carts, discounts, now, profile, orders, txn, rs,
                   restocked, stock0>>

-----------------------------------------------------------------------------
(* Inputs of the engine specification *)

DiscountRow(type, vtype, value, mps, code, targets, minutes, subtotal, active) ==
    [id |-> 0, discount_type |-> type, value_type |-> vtype, value |-> value,
     is_active |-> active, starts_at |-> NoneInt, ends_at |-> NoneInt,
     priority |-> 100, stackable |-> TRUE, exclusive |-> FALSE,
     min_cart_subtotal |-> subtotal, min_abandoned_minutes |-> minutes,
     max_profit_share |-> mps, code |-> code, target_variants |-> targets]

DiscountKinds ==
    { DiscountRow("cart_subtotal", "percent", 50, 100, "None", {}, NoneInt, NoneInt, TRUE),
      DiscountRow("cart_subtotal", "fixed", 5, 10, "None", {}, NoneInt, NoneInt, TRUE),
      DiscountRow("cart_subtotal", "fixed", 5, 0, "None", {}, NoneInt, NoneInt, TRUE),
      DiscountRow("coupon", "percent", 10, 75, "SAVE", {}, NoneInt, NoneInt, TRUE),
      DiscountRow("flash_sale", "percent", 10, 75, "None", {2}, NoneInt, NoneInt, TRUE),
      DiscountRow("abandoned_cart", "fixed", 5, 25, "None", {}, 60, NoneInt, TRUE) }

\* Rows with a condition set: switched off, scheduled around now = 90 (not yet
\* started, already ended, running), a minimum cart subtotal between the
\* totals of the carts, and an idle time the cart has not reached.
GatedKinds ==
    LET k == DiscountRow("cart_subtotal", "fixed", 5, 10, "None", {}, NoneInt, NoneInt, TRUE)
    IN  { [k EXCEPT !.is_active = FALSE],
          [k EXCEPT !.starts_at = 100],
          [k EXCEPT !.ends_at = 80],
          [k EXCEPT !.starts_at = 80, !.ends_at = 100],
          [k EXCEPT !.min_cart_subtotal = Money(150)],
          DiscountRow("abandoned_cart", "fixed", 5, 25, "None", {}, 120, NoneInt, TRUE) }

StackingFlags == { <<TRUE, FALSE>>, <<FALSE, FALSE>>, <<TRUE, TRUE>> }

WithFlags(k, p, f) == [k EXCEPT !.priority = p, !.stackable = f[1], !.exclusive = f[2]]

DiscountDomain ==
    { WithFlags(k, p, f) :
        k \in { j \in DiscountKinds : j.discount_type = "cart_subtotal" },
        p \in {1, 2}, f \in StackingFlags }
    \cup { WithFlags(k, 1, f) :
        k \in { j \in DiscountKinds : j.discount_type = "coupon" }, f \in StackingFlags }
    \cup { k \in DiscountKinds : k.discount_type \in {"flash_sale", "abandoned_cart"} }
    \cup GatedKinds

DiscountSeqs(D) ==
    UNION { { [i \in 1..n |-> [f[i] EXCEPT !.id = i]] : f \in [1..n -> D] } :
              n \in 0..NumDiscounts }

EngineCartItems ==
    { << VariantLine(1, 1, Money(100)), VariantLine(2, 1, Money(100)) >>,
      << VariantLine(1, 1, Money(100)), BundleLine(1, 1, Money(20)) >> }
    \cup UNION { { << VariantLine(1, q, Money(100)) >>,
                   << BundleLine(1, q, Money(20)) >> } : q \in 1..MaxQty }

CartRow(u, items, updated) ==
    [user |-> u, items |-> items, is_converted |-> FALSE, updated_at |-> updated]

InitEngine ==
    /\ stock = [v \in Variants |-> MaxStock]
    /\ stock0 = stock
    /\ \E c \in {Money(50), Money(100)} : cost_price = [v \in Variants |-> c]
    /\ \E items \in EngineCartItems :
          carts = [c \in Carts |-> IF c = 1 THEN CartRow(1, items, 0)
                                   ELSE CartRow(2, << >>, 0)]
    /\ discounts \in DiscountSeqs(DiscountDomain)
    /\ now = 90
    /\ profile = [u \in Users |-> NoProfile]
    /\ orders = [t \in Txns |-> NoOrder]
    /\ txn = [t \in Txns |-> IdleTxn]
    /\ rs = [r \in Restockers |-> IdleRestock]
    /\ restocked = [t \in Txns |-> [v \in Variants |-> 0]]
    /\ preview = NoPreview
    /\ CatalogIdle
    /\ AccountIdle

PreviewAny == \E coupon \in CouponInputs : Preview(1, coupon)

NextEngine == PreviewAny

SpecEngine == InitEngine /\ [][NextEngine]_vars

-----------------------------------------------------------------------------
(* create_from_cart: one database transaction per call *)

\* accounts.User rows: users 1 and 2 are customers, user 3 is staff.
UserRow(u) == [is_staff |-> (u = 3), is_superuser |-> FALSE]

EveryTypeIsRevenue(order_type) == TRUE

Revenue(order_type) == order_type \in {"normal", "wholesale"}
AdminOnly(order_type) ==
    order_type \in {"wholesale", "replacement", "exchange", "cancellation"}

Active(t) == txn[t].pc \notin {"idle", "done"}
Customer(t) == carts[txn[t].cart].user
CartItems(t) == carts[txn[t].cart].items

\* A row lock is held from the statement that takes it to the end of the
\* transaction.
LockedByOther(t, v) ==
    \E o \in Txns \ {t} : Active(o) /\ v \in txn[o].locks

ProfileLockedByOther(t, u) ==
    \E o \in Txns \ {t} : Active(o) /\ txn[o].wrote_profile /\ Customer(o) = u

\* What a SELECT of another transaction sees of a user's ShippingAddress row
\* (READ COMMITTED): the row without the uncommitted write of its lock holder.
CommittedProfile(u) ==
    IF \E o \in Txns : Active(o) /\ txn[o].wrote_profile /\ Customer(o) = u
    THEN txn[CHOOSE o \in Txns : Active(o) /\ txn[o].wrote_profile /\ Customer(o) = u]
            .old_profile
    ELSE profile[u]

\* any(shipping_data.values())
AnyValue(sd) ==
    \/ sd.city_id > 0 \/ sd.region_id > 0
    \/ sd.city # "" \/ sd.region # "" \/ sd.location # "" \/ sd.client_mobile2 # ""

\* shipping_data.get(f) in (None, "") for one of the five required fields
MissingRequired(sd) ==
    \/ sd.city_id = NoneInt \/ sd.region_id = NoneInt
    \/ sd.city = "" \/ sd.region = "" \/ sd.location = ""

has_shipping_info(p) == p.city_id # 0 /\ p.region_id # 0

\* The profile object after the create, or after the setattr loop of the update.
ProfileFromData(seen, sd) ==
    [exists |-> TRUE, city_id |-> sd.city_id, city |-> sd.city,
     region_id |-> sd.region_id, region |-> sd.region, location |-> sd.location,
     client_mobile2 |-> IF sd.client_mobile2 # "" THEN sd.client_mobile2
                        ELSE IF seen.exists THEN seen.client_mobile2 ELSE ""]

\* ShippingAddress.client_mobile2 is unique; NULL (here "") never collides.
ProfileMobileTaken(u, m) ==
    m # "" /\ \E o \in Users \ {u} : profile[o].exists /\ profile[o].client_mobile2 = m

\* The rollback of transaction.atomic when the call raises: every write of the
\* call is undone and its locks are released.
RolledBackStock(t) == [v \in Variants |-> stock[v] + txn[t].dec[v]]

KeepsDecrements(t) == stock

RestoredStock(t) == RolledBackStock(t)

Fail(t, reason) ==
    /\ stock' = RestoredStock(t)
    /\ orders' = [orders EXCEPT ![t] = NoOrder]
    /\ profile' = IF txn[t].wrote_profile
                  THEN [profile EXCEPT ![Customer(t)] = txn[t].old_profile]
                  ELSE profile
    /\ txn' = [txn EXCEPT ![t].pc = "done", ![t].result = reason,
                          ![t].locks = {}, ![t].dec = [v \in Variants |-> 0],
                          ![t].wrote_profile = FALSE]
    /\ UNCHANGED <<accountVars, catalogVars, cost_price, carts, discounts, now, rs, restocked, stock0, preview>>

CallArgs(c, order_type, created_by, delivery_method, shipping_data, is_free_shipping, shipping_cost, extra_manual_discount, coupon_code) ==
    [cart |-> c, order_type |-> order_type, created_by |-> created_by,
     delivery_method |-> delivery_method, shipping_data |-> shipping_data,
     is_free_shipping |-> is_free_shipping, shipping_cost |-> shipping_cost,
     extra_manual_discount |-> extra_manual_discount, coupon_code |-> coupon_code]

GateNeverRejects(a) == FALSE

\* services.py:93-97
GateRejects(a) ==
    /\ AdminOnly(a.order_type)
    /\ ~UserRow(a.created_by).is_staff
    /\ ~UserRow(a.created_by).is_superuser

\* The call starts: arguments are bound and the authorization gate runs.
Call(t, a) ==
    /\ txn[t].pc = "idle"
    /\ \A o \in Txns : o < t => txn[o].pc # "idle"
    /\ txn' = [txn EXCEPT ![t] =
                 [IdleTxn EXCEPT !.pc = IF GateRejects(a) THEN "done" ELSE "profile",
                                 !.result = IF GateRejects(a) THEN "not_allowed" ELSE "",
                                 !.cart = a.cart, !.order_type = a.order_type,
                                 !.created_by = a.created_by,
                                 !.delivery_method = a.delivery_method,
                                 !.shipping_data = a.shipping_data,
                                 !.is_free_shipping = a.is_free_shipping,
                                 !.shipping_cost = a.shipping_cost,
                                 !.extra_manual_discount = a.extra_manual_discount,
                                 !.coupon_code = a.coupon_code]]
    /\ UNCHANGED <<accountVars, catalogVars, stock, cost_price, carts, discounts, now, profile, orders, rs,
                   restocked, stock0, preview>>

\* services.py:99-113 with _get_or_update_shipping_profile (23-62).  The profile
\* is read as committed; a write waits while another transaction holds the row.
ShippingProfile(t) ==
    /\ txn[t].pc = "profile"
    /\ LET u == Customer(t)
           sd == txn[t].shipping_data
           seen == CommittedProfile(u)
           written == ProfileFromData(seen, sd)
       IN  IF AnyValue(sd)
           THEN IF MissingRequired(sd)
                THEN Fail(t, "shipping")
                ELSE IF ProfileLockedByOther(t, u)
                THEN /\ txn' = [txn EXCEPT ![t].pc = "profile_wait",
                                           ![t].profile = written,
                                           ![t].old_profile = seen]
                     /\ UNCHANGED <<accountVars, catalogVars, stock, cost_price, carts, discounts, now, profile,
                                    orders, rs, restocked, stock0, preview>>
                ELSE IF ProfileMobileTaken(u, written.client_mobile2)
                THEN Fail(t, "integrity")
                ELSE /\ profile' = [profile EXCEPT ![u] = written]
                     /\ txn' = [txn EXCEPT ![t].pc = "order",
                                           ![t].profile = written,
                                           ![t].wrote_profile = TRUE,
                                           ![t].old_profile = seen]
                     /\ UNCHANGED <<accountVars, catalogVars, stock, cost_price, carts, discounts, now, orders,
                                    rs, restocked, stock0, preview>>
           ELSE IF txn[t].delivery_method = "delivery"
                   /\ (~seen.exists \/ ~has_shipping_info(seen))
                THEN Fail(t, "shipping")
                ELSE /\ txn' = [txn EXCEPT ![t].pc = "order", ![t].profile = seen]
                     /\ UNCHANGED <<accountVars, catalogVars, stock, cost_price, carts, discounts, now, profile,
                                    orders, rs, restocked, stock0, preview>>

\* The INSERT or UPDATE of the profile once the row is free again.  The object
\* written is the one built from the earlier read: an INSERT collides with a row
\* committed meanwhile (user is a OneToOneField).
ShippingProfileWrite(t) ==
    /\ txn[t].pc = "profile_wait"
    /\ LET u == Customer(t)
       IN  /\ ~ProfileLockedByOther(t, u)
           /\ IF (~txn[t].old_profile.exists /\ profile[u].exists)
                 \/ ProfileMobileTaken(u, txn[t].profile.client_mobile2)
              THEN Fail(t, "integrity")
              ELSE /\ profile' = [profile EXCEPT ![u] = txn[t].profile]
                   /\ txn' = [txn EXCEPT ![t].pc = "order",
                                         ![t].wrote_profile = TRUE,
                                         ![t].old_profile = profile[u]]
                   /\ UNCHANGED <<accountVars, catalogVars, stock, cost_price, carts, discounts, now, orders,
                                  rs, restocked, stock0, preview>>

\* services.py:133-144: totals of an issue order, no engine.
BasicTotals(items, cost) ==
    EngineResult(FALSE, SumOriginal(items), SumOriginal(items), << >>, 0,
                 Max2(SumOriginal(items) - SumCost(items, cost), 0),
                 Max2(SumOriginal(items) - SumCost(items, cost), 0))

UnclampedManual(extra, discounted_total) == extra

\* services.py:146-149
ClampManual(extra, discounted_total) ==
    Min2(Max2(extra, 0), discounted_total)

\* Order.client_mobile2 is unique and the snapshot stores "" for a missing
\* number (services.py:164, 175).
SnapshotMobile(p) == IF p.exists THEN p.client_mobile2 ELSE ""

MobileCommitted(t, m) ==
    \E o \in Txns \ {t} : orders[o].state = "committed" /\ orders[o].client_mobile2 = m

MobilePending(t, m) ==
    \E o \in Txns \ {t} : orders[o].state = "open" /\ orders[o].client_mobile2 = m

FreeShippingIgnored(is_free_shipping, shipping_cost) == shipping_cost

\* services.py:193
OrderShippingCost(is_free_shipping, shipping_cost) ==
    IF is_free_shipping THEN 0 ELSE shipping_cost

\* services.py:115-214: the engine runs, the totals are computed and the Order
\* row is inserted.  The insert waits on an uncommitted row with the same
\* client_mobile2 and fails on a committed one.
CreateOrder(t) ==
    /\ txn[t].pc = "order"
    /\ LET a == txn[t]
           res == IF Revenue(a.order_type)
                  THEN apply_discounts(carts[a.cart], a.coupon_code, discounts,
                                       cost_price, now)
                  ELSE BasicTotals(CartItems(t), cost_price)
           manual == ClampManual(a.extra_manual_discount, res.discounted_total)
           mobile == SnapshotMobile(a.profile)
       IN  IF res.raised THEN Fail(t, "engine")
           ELSE /\ ~MobilePending(t, mobile)
                /\ IF MobileCommitted(t, mobile) THEN Fail(t, "integrity")
                   ELSE
                    /\ orders' = [orders EXCEPT ![t] =
                         [NoOrder EXCEPT
                            !.state = "open", !.cart = a.cart,
                            !.customer = Customer(t), !.created_by = a.created_by,
                            !.order_type = a.order_type,
                            !.delivery_method = a.delivery_method,
                            !.is_free_shipping = a.is_free_shipping,
                            !.shipping_cost =
                                OrderShippingCost(a.is_free_shipping, a.shipping_cost),
                            !.items_total = res.original_total,
                            !.discount_total = res.total_discount + manual,
                            !.applied_discounts = res.applied_discounts,
                            !.engine_discount_total = res.total_discount,
                            !.extra_manual_discount = manual,
                            !.has_breakdown =
                                (res.applied_discounts # << >> \/ manual # 0),
                            !.profit_before = res.profit_before,
                            !.profit_after = res.profit_after,
                            !.shipping_profile =
                                IF a.profile.exists THEN Customer(t) ELSE 0,
                            !.city_id = a.profile.city_id, !.city = a.profile.city,
                            !.region_id = a.profile.region_id,
                            !.region = a.profile.region,
                            !.location = a.profile.location,
                            !.client_mobile2 = mobile]]
                    /\ txn' = [txn EXCEPT ![t].pc = "lines", ![t].line = 1,
                                          ![t].item = 1,
                                          ![t].discounted_total = res.discounted_total,
                                          ![t].items_total_after_all_discounts =
                                              res.discounted_total - manual]
                    /\ UNCHANGED <<accountVars, catalogVars, stock, cost_price, carts, discounts, now, profile,
                                   rs, restocked, stock0, preview>>

OrderLineAtUnitPrice(item) ==
    [line_type |-> item.line_type, variant |-> item.variant, bundle |-> item.bundle,
     quantity |-> item.quantity, unit_price |-> item.unit_price,
     subtotal |-> item.unit_price]

\* OrderLine.objects.create(...), services.py:234-242 and 262-270
OrderLineOf(item) ==
    [line_type |-> item.line_type, variant |-> item.variant, bundle |-> item.bundle,
     quantity |-> item.quantity, unit_price |-> item.unit_price,
     subtotal |-> item.unit_price * item.quantity]

RequiredIgnoringBundleQuantity(item, bi) == item.quantity

\* qty of a variant line; bi.quantity * qty for a constituent of a bundle line
Required(item, bi) ==
    IF item.line_type = "variant" THEN item.quantity ELSE bi.quantity * item.quantity

UnconditionalUpdate(s, required) == TRUE

\* filter(pk=..., stock__gte=required).update(...) affects a row
ConditionalUpdate(s, required) == s >= required

\* services.py:216-270, one statement group per step: the row lock and the
\* conditional decrement of one variant, and the OrderLine once its cart line
\* is through.
ProcessLine(t) ==
    /\ txn[t].pc = "lines"
    /\ txn[t].line <= Len(CartItems(t))
    /\ LET a == txn[t]
           item == CartItems(t)[a.line]
           touches == \/ item.line_type = "variant"
                      \/ (Revenue(a.order_type) /\ BundleItems(item.bundle) # << >>)
           bi == BundleItems(item.bundle)[a.item]
           v == IF item.line_type = "variant" THEN item.variant ELSE bi.variant
           required == Required(item, bi)
           last == item.line_type = "variant" \/ a.item = Len(BundleItems(item.bundle))
       IN  IF ~touches
           THEN /\ orders' = [orders EXCEPT ![t].lines = Append(@, OrderLineOf(item))]
                /\ txn' = [txn EXCEPT ![t].line = @ + 1, ![t].item = 1]
                /\ UNCHANGED <<accountVars, catalogVars, stock, cost_price, carts, discounts, now, profile, rs,
                               restocked, stock0, preview>>
           ELSE /\ ~LockedByOther(t, v)
                /\ IF Revenue(a.order_type) /\ ~ConditionalUpdate(stock[v], required)
                   THEN Fail(t, "stock")
                   ELSE /\ stock' = IF Revenue(a.order_type)
                                    THEN [stock EXCEPT ![v] = @ - required]
                                    ELSE stock
                        /\ txn' = [txn EXCEPT
                              ![t].locks = @ \cup {v},
                              ![t].dec = IF Revenue(a.order_type)
                                         THEN [@ EXCEPT ![v] = @ + required] ELSE @,
                              ![t].line = IF last THEN @ + 1 ELSE @,
                              ![t].item = IF last THEN 1 ELSE @ + 1]
                        /\ orders' = IF last
                                     THEN [orders EXCEPT
                                             ![t].lines = Append(@, OrderLineOf(item))]
                                     ELSE orders
                        /\ UNCHANGED <<accountVars, catalogVars, cost_price, carts, discounts, now, profile, rs,
                                       restocked, stock0, preview>>

\* services.py:271-295 and the commit of transaction.atomic.
Finalize(t) ==
    /\ txn[t].pc = "lines"
    /\ txn[t].line > Len(CartItems(t))
    /\ orders' = [orders EXCEPT
                    ![t].grand_total = txn[t].items_total_after_all_discounts
                                         + orders[t].shipping_cost,
                    ![t].state = "committed"]
    /\ carts' = [carts EXCEPT ![txn[t].cart].is_converted = TRUE]
    /\ txn' = [txn EXCEPT ![t].pc = "done", ![t].result = "ok", ![t].locks = {},
                          ![t].dec = [v \in Variants |-> 0],
                          ![t].wrote_profile = FALSE]
    /\ UNCHANGED <<accountVars, catalogVars, stock, cost_price, discounts, now, profile, rs, restocked, stock0, preview>>

-----------------------------------------------------------------------------
(* Order.process_restocking: no transaction, every save commits on its own *)

is_issue_order(o) == o.order_type \in {"replacement", "exchange", "cancellation"}

RestockAlways(o) == FALSE

\* models.py:172
RestockSkips(o) == ~is_issue_order(o) \/ o.restock_processed

\* get_object loads the order; process_restocking tests the loaded object.
RestockLoad(r, o) ==
    /\ rs[r].pc = "idle"
    /\ \A q \in Restockers : q < r => rs[q].pc # "idle"
    /\ orders[o].state = "committed"
    /\ rs' = [rs EXCEPT ![r] = [pc |-> IF RestockSkips(orders[o]) THEN "done"
                                       ELSE "lines",
                                order |-> o, line |-> 1, item |-> 1,
                                concurrent |-> \E q \in Restockers :
                                    rs[q].order = o /\ rs[q].pc = "lines"]]
    /\ UNCHANGED <<accountVars, catalogVars, stock, cost_price, carts, discounts, now, profile, orders, txn,
                   restocked, stock0, preview>>

\* models.py:175-186: one UPDATE stock = stock + n per step; it waits for the
\* row lock of a checkout.
RestockLine(r) ==
    /\ rs[r].pc = "lines"
    /\ rs[r].line <= Len(orders[rs[r].order].lines)
    /\ LET o == rs[r].order
           line == orders[o].lines[rs[r].line]
           bi == BundleItems(line.bundle)[rs[r].item]
           v == IF line.line_type = "variant" THEN line.variant ELSE bi.variant
           n == IF line.line_type = "variant" THEN line.quantity
                ELSE bi.quantity * line.quantity
           last == line.line_type = "variant" \/ rs[r].item = Len(BundleItems(line.bundle))
       IN  /\ \A t \in Txns : ~(Active(t) /\ v \in txn[t].locks)
           /\ stock' = [stock EXCEPT ![v] = @ + n]
           /\ restocked' = [restocked EXCEPT ![o][v] = @ + n]
           /\ rs' = [rs EXCEPT ![r].line = IF last THEN @ + 1 ELSE @,
                               ![r].item = IF last THEN 1 ELSE @ + 1]
    /\ UNCHANGED <<accountVars, catalogVars, cost_price, carts, discounts, now, profile, orders, txn, stock0, preview>>

\* models.py:188-189
RestockFinish(r) ==
    /\ rs[r].pc = "lines"
    /\ rs[r].line > Len(orders[rs[r].order].lines)
    /\ orders' = [orders EXCEPT ![rs[r].order].restock_processed = TRUE]
    /\ rs' = [rs EXCEPT ![r].pc = "done"]
    /\ UNCHANGED <<accountVars, catalogVars, stock, cost_price, carts, discounts, now, profile, txn, restocked,
                   stock0, preview>>

-----------------------------------------------------------------------------
(* The checkout specification: concurrent create_from_cart calls *)

CompleteProfile(m) ==
    [exists |-> TRUE, city_id |-> 1, city |-> "Baghdad", region_id |-> 10,
     region |-> "Karrada", location |-> "Demo street 123", client_mobile2 |-> m]

\* A complete shipping payload; each call brings a second number of its own.
FullData(t) ==
    [city_id |-> 1, city |-> "Baghdad", region_id |-> 2, region |-> "Karrada",
     location |-> "Street 1",
     client_mobile2 |-> IF t = 1 THEN "07700000011" ELSE "07700000012"]

CheckoutCarts ==
    [c \in Carts |->
       CASE c = 1 -> CartRow(1, << VariantLine(1, 1, Money(100)) >>, 0)
         [] c = 2 -> CartRow(2, << VariantLine(1, 1, Money(100)) >>, 0)
         [] c = 3 -> CartRow(1, << VariantLine(2, MaxQty, Money(100)),
                                   BundleLine(1, 1, Money(20)) >>, 0)
         [] c = 4 -> CartRow(2, << BundleLine(2, 1, Money(20)) >>, 0)]

HalfOff ==
    [DiscountRow("cart_subtotal", "percent", 50, 100, "None", {}, NoneInt, NoneInt, TRUE)
        EXCEPT !.id = 1]

Init ==
    /\ stock \in [Variants -> 0..MaxStock]
    /\ stock0 = stock
    /\ cost_price = [v \in Variants |-> Money(50)]
    /\ carts = CheckoutCarts
    /\ discounts = << HalfOff >>
    /\ now = 90
    /\ profile = [u \in Users |-> IF u = 3 THEN NoProfile ELSE CompleteProfile("")]
    /\ orders = [t \in Txns |-> NoOrder]
    /\ txn = [t \in Txns |-> IdleTxn]
    /\ rs = [r \in Restockers |-> IdleRestock]
    /\ restocked = [t \in Txns |-> [v \in Variants |-> 0]]
    /\ preview = NoPreview
    /\ CatalogIdle
    /\ AccountIdle

\* Who asks for which order type: the cart's owner or the staff user.
TypeAndCreator(c) ==
    { <<"normal", carts[c].user>>, <<"wholesale", carts[c].user>>,
      <<"wholesale", 3>>, <<"cancellation", 3>> }

CheckoutArgs(t) ==
    { CallArgs(c, tc[1], tc[2], "delivery", sd, FALSE, 0, 0, "") :
        c \in Carts, tc \in UNION { TypeAndCreator(k) : k \in Carts },
        sd \in {NoShippingData, FullData(t)} }

CallAny ==
    \E t \in Txns :
        /\ txn[t].pc = "idle"
        /\ \E a \in CheckoutArgs(t) :
              a.created_by \in {carts[a.cart].user, 3} /\ Call(t, a)

Next ==
    \/ CallAny
    \/ \E t \in Txns : ShippingProfile(t)
    \/ \E t \in Txns : ShippingProfileWrite(t)
    \/ \E t \in Txns : CreateOrder(t)
    \/ \E t \in Txns : ProcessLine(t)
    \/ \E t \in Txns : Finalize(t)

Spec == Init /\ [][Next]_vars

-----------------------------------------------------------------------------
(* The locking specification: carts that reach the same variants in opposite order *)

CrossedCarts ==
    [c \in Carts |->
       CASE c = 1 -> CartRow(1, << VariantLine(1, 1, Money(100)),
                                   VariantLine(2, 1, Money(100)) >>, 0)
         [] c = 2 -> CartRow(2, << VariantLine(2, 1, Money(100)),
                                   VariantLine(1, 1, Money(100)) >>, 0)
         [] c = 3 -> CartRow(1, << BundleLine(1, 1, Money(20)) >>, 0)
         [] c = 4 -> CartRow(2, << BundleLine(2, 1, Money(20)) >>, 0)]

InitLocks ==
    /\ stock \in [Variants -> 0..MaxStock]
    /\ stock0 = stock
    /\ cost_price = [v \in Variants |-> Money(50)]
    /\ carts = CrossedCarts
    /\ discounts = << HalfOff >>
    /\ now = 90
    /\ profile = [u \in Users |-> IF u = 3 THEN NoProfile ELSE CompleteProfile("")]
    /\ orders = [t \in Txns |-> NoOrder]
    /\ txn = [t \in Txns |-> IdleTxn]
    /\ rs = [r \in Restockers |-> IdleRestock]
    /\ restocked = [t \in Txns |-> [v \in Variants |-> 0]]
    /\ preview = NoPreview
    /\ CatalogIdle
    /\ AccountIdle

NextLocks ==
    \/ CallAny
    \/ \E t \in Txns : ShippingProfile(t)
    \/ \E t \in Txns : ShippingProfileWrite(t)
    \/ \E t \in Txns : CreateOrder(t)
    \/ \E t \in Txns : ProcessLine(t)
    \/ \E t \in Txns : Finalize(t)

SpecLocks == InitLocks /\ [][NextLocks]_vars

-----------------------------------------------------------------------------
(* The restocking specification: checkouts interleaved with process_restocking *)

RestockOrderTypes == OrderTypes

CallForRestock ==
    \E t \in Txns :
        /\ txn[t].pc = "idle"
        /\ \E c \in Carts : \E ot \in RestockOrderTypes :
              Call(t, CallArgs(c, ot, IF ot = "normal" THEN carts[c].user ELSE 3,
                               "delivery", FullData(t), FALSE, 0, 0, ""))

NextRestock ==
    \/ CallForRestock
    \/ \E t \in Txns : ShippingProfile(t)
    \/ \E t \in Txns : ShippingProfileWrite(t)
    \/ \E t \in Txns : CreateOrder(t)
    \/ \E t \in Txns : ProcessLine(t)
    \/ \E t \in Txns : Finalize(t)
    \/ \E r \in Restockers : \E o \in Txns : RestockLoad(r, o)
    \/ \E r \in Restockers : RestockLine(r)
    \/ \E r \in Restockers : RestockFinish(r)

SpecRestock == Init /\ [][NextRestock]_vars

-----------------------------------------------------------------------------
(* The totals specification: one create_from_cart call over all its arguments *)

CouponTen ==
    [DiscountRow("coupon", "percent", 10, 75, "SAVE", {}, NoneInt, NoneInt, TRUE)
        EXCEPT !.id = 1]
FixedFive ==
    [DiscountRow("cart_subtotal", "fixed", 5, 10, "None", {}, NoneInt, NoneInt, TRUE)
        EXCEPT !.id = 2]
FlashSale ==
    [DiscountRow("flash_sale", "percent", 10, 75, "None", {}, NoneInt, NoneInt, TRUE)
        EXCEPT !.id = 1]

\* A saved profile with city and region but no location, as a partial update of
\* the profile leaves it.
PartialProfile ==
    [exists |-> TRUE, city_id |-> 1, city |-> "Baghdad", region_id |-> 2,
     region |-> "Karrada", location |-> "", client_mobile2 |-> ""]

\* A shipping payload that lacks the location.
DataWithoutLocation == [FullData(1) EXCEPT !.location = ""]

InitTotals ==
    /\ stock = [v \in Variants |-> MaxStock]
    /\ stock0 = stock
    /\ cost_price = [v \in Variants |-> Money(50)]
    /\ carts = CheckoutCarts
    /\ discounts \in { << >>, << HalfOff >>, << CouponTen, FixedFive >>, << FlashSale >> }
    /\ now = 90
    /\ profile \in { [u \in Users |-> CASE u = 1 -> CompleteProfile("")
                                        [] u = 2 -> p2
                                        [] OTHER -> NoProfile] :
                       p2 \in {NoProfile, PartialProfile} }
    /\ orders = [t \in Txns |-> NoOrder]
    /\ txn = [t \in Txns |-> IdleTxn]
    /\ rs = [r \in Restockers |-> IdleRestock]
    /\ restocked = [t \in Txns |-> [v \in Variants |-> 0]]
    /\ preview = NoPreview
    /\ CatalogIdle
    /\ AccountIdle

ManualInputs == { 0 - Money(1), 0, Money(10), Money(500) }

TotalsArgs ==
    { CallArgs(c, ot, by, dm, sd, free, cost, manual, coupon) :
        c \in Carts, ot \in OrderTypes, by \in {1, 2, 3}, dm \in {"delivery", "pickup"},
        sd \in {NoShippingData, FullData(1), DataWithoutLocation}, free \in BOOLEAN,
        cost \in {0, Money(5)}, manual \in ManualInputs, coupon \in {"", "save"} }

CallOnce ==
    /\ txn[1].pc = "idle"
    /\ \E a \in TotalsArgs :
          a.created_by \in {carts[a.cart].user, 3} /\ Call(1, a)

NextTotals ==
    \/ CallOnce
    \/ ShippingProfile(1)
    \/ CreateOrder(1)
    \/ ProcessLine(1)
    \/ Finalize(1)

SpecTotals == InitTotals /\ [][NextTotals]_vars

-----------------------------------------------------------------------------
(* Tiered prices: catalog/services.py resolve_price, TieredPrice.matches *)

TierIds == {1, 2}
BasisSet == {"quantity", "weight"}
UnitSet == {"kg", "pcs"}
TierValues == 0..MaxTierValue
TierPrices == {7, 9}

\* The variant the tiers belong to.
TieredVariant == [pricing_mode |-> "tiered", sale_price |-> 10]

TierRow(id, basis, unit, min_value, max_value, sale_price) ==
    [id |-> id, basis |-> basis, unit |-> unit, min_value |-> min_value,
     max_value |-> max_value, sale_price |-> sale_price]

MatchesClosed(tp, qty, weight) ==
    LET v == IF tp.basis = "quantity" THEN qty ELSE weight
    IN  v # NoneInt /\ tp.min_value <= v /\ (tp.max_value = NoneInt \/ v <= tp.max_value)

\* TieredPrice.matches
matches(tp, qty, weight) ==
    LET v == IF tp.basis = "quantity" THEN qty ELSE weight
    IN  IF v = NoneInt THEN FALSE
        ELSE IF tp.max_value = NoneInt THEN v >= tp.min_value
        ELSE tp.min_value <= v /\ v < tp.max_value

\* Position of a row in the candidates list before the sort: the quantity rows
\* first, each queryset in Meta.ordering (basis, unit, min_value).
BasisRank(b) == IF b = "quantity" THEN 1 ELSE 2
UnitRank(u) == IF u = "kg" THEN 1 ELSE 2

\* a comes before b after sorted(candidates, key=(min_value, sale_price)); the
\* sort is stable, so equal keys keep the order of the list.
SortsBefore(a, b) ==
    \/ a.min_value < b.min_value
    \/ a.min_value = b.min_value /\ a.sale_price < b.sale_price
    \/ a.min_value = b.min_value /\ a.sale_price = b.sale_price
         /\ \/ BasisRank(a.basis) < BasisRank(b.basis)
            \/ a.basis = b.basis /\ UnitRank(a.unit) < UnitRank(b.unit)
            \/ a.basis = b.basis /\ a.unit = b.unit /\ a.id < b.id

First(rows) == CHOOSE a \in rows : \A b \in rows \ {a} : SortsBefore(a, b)

TierResult(tp) == [sale_price |-> tp.sale_price, basis |-> tp.basis, tier_id |-> tp.id]
FlatResult(variant) == [sale_price |-> variant.sale_price, basis |-> "None", tier_id |-> NoneInt]

\* The results resolve_price can return.  Without a measure the cheapest tier
\* is returned, order_by("sale_price", "min_value").first(); rows equal on both
\* come in an order the database chooses.
resolve_price(variant, rows, quantity, weight) ==
    LET candidates ==
            {tp \in rows : \/ quantity # NoneInt /\ tp.basis = "quantity"
                           \/ weight # NoneInt /\ tp.basis = "weight"}
        matching == {tp \in candidates : matches(tp, quantity, weight)}
        cheapest ==
            {tp \in rows : \A o \in rows :
                \/ tp.sale_price < o.sale_price
                \/ tp.sale_price = o.sale_price /\ tp.min_value <= o.min_value}
    IN  IF variant.pricing_mode = "flat" \/ rows = {}
        THEN {FlatResult(variant)}
        ELSE IF candidates = {}
        THEN {TierResult(tp) : tp \in cheapest}
        ELSE IF matching # {}
        THEN {TierResult(First(matching))}
        ELSE {TierResult(First(candidates))}

Measures == {NoneInt} \cup TierValues

\* One resolve_price call per behaviour; the result is kept with its arguments.
ResolvePrice ==
    /\ resolved = NoResolve
    /\ \E quantity \in Measures : \E weight \in Measures :
         \E r \in resolve_price(TieredVariant, tiers, quantity, weight) :
            resolved' = [sale_price |-> r.sale_price, basis |-> r.basis,
                         tier_id |-> r.tier_id, quantity |-> quantity,
                         weight |-> weight]
    /\ UNCHANGED <<accountVars, checkoutVars, tiers, tier_saved, return_requests, last_return>>

\* The checkout side at rest: full stock, no call, no order.
CheckoutIdle ==
    /\ stock = [v \in Variants |-> MaxStock]
    /\ stock0 = stock
    /\ cost_price = [v \in Variants |-> Money(50)]
    /\ carts = CheckoutCarts
    /\ discounts = << >>
    /\ now = 90
    /\ profile = [u \in Users |-> NoProfile]
    /\ orders = [t \in Txns |-> NoOrder]
    /\ txn = [t \in Txns |-> IdleTxn]
    /\ rs = [r \in Restockers |-> IdleRestock]
    /\ restocked = [t \in Txns |-> [v \in Variants |-> 0]]
    /\ preview = NoPreview

\* Ranges of TieredPrice rows: max_value None or above min_value.
TierRanges ==
    { r \in TierValues \X ({NoneInt} \cup TierValues) : r[2] = NoneInt \/ r[2] > r[1] }

RowsWithId(id) ==
    { TierRow(id, b, u, r[1], r[2], p) :
        b \in BasisSet, u \in UnitSet, r \in TierRanges, p \in TierPrices }

\* uniq_variant_tier_range: no two rows with the same basis, unit and range.
SameRange(a, b) ==
    a.basis = b.basis /\ a.unit = b.unit
    /\ a.min_value = b.min_value /\ a.max_value = b.max_value

InitResolve ==
    /\ CheckoutIdle
    /\ tiers \in {{}} \cup { {a} : a \in RowsWithId(1) }
                \cup UNION { { {a, b} : b \in {x \in RowsWithId(2) : ~SameRange(a, x)} } :
                              a \in RowsWithId(1) }
    /\ resolved = NoResolve
    /\ tier_saved = ""
    /\ return_requests = << >>
    /\ last_return = ""
    /\ AccountIdle

NextResolve == ResolvePrice

SpecResolve == InitResolve /\ [][NextResolve]_vars

-----------------------------------------------------------------------------
(* Tier writes: catalog/serializers.py TieredPriceSerializer *)

\* A key the request does not carry: attrs.get(key, default) yields the default.
Absent == 0 - 2
NoInstance == TierRow(0, "None", "None", NoneInt, NoneInt, NoneInt)

TierAttrs(basis, unit, min_value, max_value, sale_price) ==
    [basis |-> basis, unit |-> unit, min_value |-> min_value,
     max_value |-> max_value, sale_price |-> sale_price]

\* attrs.get(key, self.instance.<key> if self.instance else None)
AttrOr(value, fallback) == IF value = Absent THEN fallback ELSE value
ChoiceOr(value, fallback) == IF value = "absent" THEN fallback ELSE value

OverlapsStartOnly(new_min, new_max, tp) ==
    tp.min_value <= new_min /\ (tp.max_value = NoneInt \/ new_min < tp.max_value)

\* new_min < existing_max and new_max > existing_min, None being Infinity
Overlaps(new_min, new_max, tp) ==
    /\ (tp.max_value = NoneInt \/ new_min < tp.max_value)
    /\ (new_max = NoneInt \/ new_max > tp.min_value)

\* TieredPriceSerializer.validate: TRUE when no ValidationError is raised.
validate(attrs, instance, rows) ==
    LET min_value == AttrOr(attrs.min_value, instance.min_value)
        max_value == AttrOr(attrs.max_value, instance.max_value)
        basis == ChoiceOr(attrs.basis, instance.basis)
        unit == ChoiceOr(attrs.unit, instance.unit)
        qs == {tp \in rows : tp.basis = basis /\ tp.unit = unit /\ tp.id # instance.id}
    IN  /\ ~(max_value # NoneInt /\ min_value # NoneInt /\ max_value <= min_value)
        /\ (basis # "None" /\ unit # "None") =>
              ~\E tp \in qs : Overlaps(min_value, max_value, tp)

\* The row after ModelSerializer.create / update sets the validated attrs.
SavedRow(id, attrs, instance) ==
    TierRow(id, ChoiceOr(attrs.basis, instance.basis), ChoiceOr(attrs.unit, instance.unit),
            AttrOr(attrs.min_value, instance.min_value),
            AttrOr(attrs.max_value, instance.max_value),
            AttrOr(attrs.sale_price, instance.sale_price))

\* validate never reads sale_price, so one posted price stands for all of them.
PostedPrices == {p \in TierPrices : \A q \in TierPrices : p <= q}

\* POST of a tier: basis, unit, min_value and sale_price are required fields,
\* max_value may be left out or null.
CreateTier ==
    \E basis \in BasisSet : \E unit \in UnitSet : \E min_value \in TierValues :
    \E max_value \in {Absent, NoneInt} \cup TierValues : \E sale_price \in PostedPrices :
        LET attrs == TierAttrs(basis, unit, min_value, max_value, sale_price)
            id == Cardinality(tiers) + 1
        IN  /\ IF validate(attrs, NoInstance, tiers)
               THEN /\ id \in TierIds
                    /\ tiers' = tiers \cup {SavedRow(id, attrs, NoInstance)}
                    /\ tier_saved' = "created"
               ELSE /\ tiers' = tiers
                    /\ tier_saved' = "rejected"
            /\ UNCHANGED <<accountVars, checkoutVars, resolved, return_requests, last_return>>

\* PUT or PATCH of a tier: any of basis, unit, min_value, max_value.
UpdateTier ==
    \E instance \in tiers :
    \E basis \in {"absent"} \cup BasisSet : \E unit \in {"absent"} \cup UnitSet :
    \E min_value \in {Absent} \cup TierValues :
    \E max_value \in {Absent, NoneInt} \cup TierValues :
        LET attrs == TierAttrs(basis, unit, min_value, max_value, Absent)
        IN  /\ IF validate(attrs, instance, tiers)
               THEN /\ tiers' = (tiers \ {instance})
                                  \cup {SavedRow(instance.id, attrs, instance)}
                    /\ tier_saved' = "updated"
               ELSE /\ tiers' = tiers
                    /\ tier_saved' = "rejected"
            /\ UNCHANGED <<accountVars, checkoutVars, resolved, return_requests, last_return>>

InitTiers == CheckoutIdle /\ CatalogIdle /\ AccountIdle

NextTiers == CreateTier \/ UpdateTier

SpecTiers == InitTiers /\ [][NextTiers]_vars

-----------------------------------------------------------------------------
(* Return requests: returns/serializers.py ReturnRequestCreateSerializer *)

\* User.role: users 1 and 2 are customers, user 3 is an employee.
Role(u) == IF u = 3 THEN "employee" ELSE "customer"

\* Order rows: order 1 of customer 1 is completed, order 2 of customer 2 is
\* still pending.
PurchasedOrders == {[id |-> 1, customer |-> 1, status |-> "completed"],
                    [id |-> 2, customer |-> 2, status |-> "pending"]}

\* OrderLine rows.
PurchasedLines == {[id |-> 1, order |-> 1, quantity |-> MaxQty],
                   [id |-> 2, order |-> 2, quantity |-> 1]}

OrderIdsPosted == {o.id : o \in PurchasedOrders} \cup {Cardinality(PurchasedOrders) + 1}
LineIdsPosted == {l.id : l \in PurchasedLines} \cup {Cardinality(PurchasedLines) + 1}

\* requested_quantity = IntegerField(min_value=1)
LinePayloads == [order_line_id : LineIdsPosted, requested_quantity : 1..(MaxQty + 1)]

LineLists == {<< >>} \cup {<<a>> : a \in LinePayloads}
                \cup {<<a, b>> : a \in LinePayloads, b \in LinePayloads}

\* ReturnRequestLineCreateSerializer.validate: the order line exists.
LineValid(line) == \E l \in PurchasedLines : l.id = line.order_line_id

\* ReturnRequestCreateSerializer.validate, after the nested lines validated.
RequestValid(user, original_order_id, lines) ==
    /\ \A i \in 1..Len(lines) : LineValid(lines[i])
    /\ \E order \in PurchasedOrders :
         /\ order.id = original_order_id
         /\ Role(user) \in {"admin", "employee"} \/ order.customer = user
         /\ order.status \in {"completed", "shipped"}
    /\ lines # << >>

OrderCustomer(original_order_id) ==
    (CHOOSE order \in PurchasedOrders : order.id = original_order_id).customer

\* is_valid() followed by save(): create stores the request and one
\* ReturnRequestLine for every posted line.
SubmitReturn ==
    /\ Len(return_requests) < MaxReturns
    /\ \E user \in Users : \E original_order_id \in OrderIdsPosted : \E lines \in LineLists :
         IF RequestValid(user, original_order_id, lines)
         THEN /\ return_requests' = Append(return_requests,
                     [customer |-> OrderCustomer(original_order_id),
                      original_order |-> original_order_id,
                      status |-> "pending",
                      lines |-> lines])
              /\ last_return' = "created"
         ELSE /\ return_requests' = return_requests
              /\ last_return' = "invalid"
    /\ UNCHANGED <<accountVars, checkoutVars, tiers, resolved, tier_saved>>

InitReturns == CheckoutIdle /\ CatalogIdle /\ AccountIdle

NextReturns == SubmitReturn

SpecReturns == InitReturns /\ [][NextReturns]_vars

-----------------------------------------------------------------------------
(* Accounts: registration, OTPService and OTPVerificationSerializer *)

\* OTPVerification.is_expired: timezone.now() > self.expires_at
is_expired(otp) == clock > otp.expires_at

\* .order_by("-created_at").first() of a queryset, NoOtp for None
Latest(rows) ==
    IF rows = {} THEN NoOtp
    ELSE CHOOSE o \in rows : \A x \in rows : x.created_at <= o.created_at

\* OTPVerification.last_sent
last_sent == Latest(otps)

\* OTPVerification.create_otp: drops the unused rows that have expired and
\* stores a row with a fresh code.
create_otp(rows, code) ==
    {o \in rows : ~(~o.is_used /\ o.expires_at < clock)}
        \cup {[id |-> otp_seq + 1, otp_code |-> code, created_at |-> clock,
               expires_at |-> clock + EXPIRY_MINUTES * 60, is_used |-> FALSE]}

\* OTPService.send_otp: TRUE when the cooldown lets the OTP go out.
CooldownOver == last_sent = NoOtp \/ clock - last_sent.created_at >= COOLDOWN_SECONDS

\* The rows after send_otp has marked an expired last OTP used.
ExpiredLastUsed ==
    IF last_sent # NoOtp /\ is_expired(last_sent)
    THEN (otps \ {last_sent}) \cup {[last_sent EXCEPT !.is_used = TRUE]}
    ELSE otps

send_otp(code) ==
    /\ otp_seq < MaxOtps
    /\ otps' = create_otp(ExpiredLastUsed, code)
    /\ otp_seq' = otp_seq + 1

\* POST register: RegistrationSerializer.create stores an inactive customer,
\* then the view sends the activation OTP.
Register ==
    /\ account = "none"
    /\ account' = "inactive"
    /\ \E code \in Codes : send_otp(code)
    /\ UNCHANGED <<checkoutVars, catalogVars, attempts, clock, req, successes>>

\* POST resend-otp: send_otp under the cooldown.
ResendOTP ==
    /\ account # "none"
    /\ IF CooldownOver
       THEN \E code \in Codes : send_otp(code)
       ELSE UNCHANGED <<otps, otp_seq>>
    /\ UNCHANGED <<checkoutVars, catalogVars, account, attempts, clock, req, successes>>

\* cache.get(cache_key, 0): an entry past its timeout reads as absent.
CachedAttempts == IF attempts # NoEntry /\ clock < attempts.expires THEN attempts.value ELSE 0

\* POST verify-otp, first step: OTPVerificationSerializer.validate finds the
\* user and verify_with_attempt_limit reads the attempt count.
ReadAttempts(p) ==
    /\ account # "none"
    /\ req[p].pc = "idle"
    /\ \E code \in Codes \cup {WrongCode} :
         IF CachedAttempts >= MAX_VERIFY_ATTEMPTS
         THEN UNCHANGED req
         ELSE req' = [req EXCEPT ![p] = [pc |-> "verify", code |-> code,
                                        attempts |-> CachedAttempts,
                                        otp_entry |-> NoOtp]]
    /\ UNCHANGED <<checkoutVars, catalogVars, account, otps, otp_seq, attempts, clock,
                   successes>>

\* verify_otp up to its last test: the latest unused row is fetched and
\* checked against the posted code.
VerifyOtp(p) ==
    /\ req[p].pc = "verify"
    /\ LET otp_entry == Latest({o \in otps : ~o.is_used})
           success == /\ otp_entry # NoOtp
                      /\ ~is_expired(otp_entry)
                      /\ otp_entry.otp_code = req[p].code
       IN  IF success
           THEN req' = [req EXCEPT ![p] = [NoRequest EXCEPT !.pc = "save",
                                                          !.otp_entry = otp_entry]]
           ELSE req' = [req EXCEPT ![p].pc = "count"]
    /\ UNCHANGED <<checkoutVars, catalogVars, account, otps, otp_seq, attempts, clock,
                   successes>>

\* otp_entry.is_used = True; otp_entry.save(): the row is written whole, and
\* written anew when it has been deleted in between.
SaveUsed(p) ==
    /\ req[p].pc = "save"
    /\ otps' = {o \in otps : o.id # req[p].otp_entry.id}
                  \cup {[req[p].otp_entry EXCEPT !.is_used = TRUE]}
    /\ successes' = [successes EXCEPT ![req[p].otp_entry.id] = @ + 1]
    /\ req' = [req EXCEPT ![p] = [NoRequest EXCEPT !.pc = "activate"]]
    /\ UNCHANGED <<checkoutVars, catalogVars, account, otp_seq, attempts, clock>>

\* cache.delete(cache_key), then the serializer activates the user.
Activate(p) ==
    /\ req[p].pc = "activate"
    /\ attempts' = NoEntry
    /\ account' = "active"
    /\ req' = [req EXCEPT ![p] = NoRequest]
    /\ UNCHANGED <<checkoutVars, catalogVars, otps, otp_seq, clock, successes>>

\* cache.set(cache_key, attempts + 1, BLOCK_SECONDS) after a failed verify_otp.
CountFailure(p) ==
    /\ req[p].pc = "count"
    /\ attempts' = [value |-> req[p].attempts + 1, expires |-> clock + BLOCK_SECONDS]
    /\ req' = [req EXCEPT ![p] = NoRequest]
    /\ UNCHANGED <<checkoutVars, catalogVars, account, otps, otp_seq, clock, successes>>

Tick ==
    /\ clock < MaxTicks * TickSeconds
    /\ clock' = clock + TickSeconds
    /\ UNCHANGED <<checkoutVars, catalogVars, account, otps, otp_seq, attempts, req,
                   successes>>

InitAccounts == CheckoutIdle /\ CatalogIdle /\ AccountIdle

NextAccounts ==
    \/ Register
    \/ ResendOTP
    \/ \E p \in Verifiers : ReadAttempts(p)
    \/ \E p \in Verifiers : VerifyOtp(p)
    \/ \E p \in Verifiers : SaveUsed(p)
    \/ \E p \in Verifiers : Activate(p)
    \/ \E p \in Verifiers : CountFailure(p)
    \/ Tick

SpecAccounts == InitAccounts /\ [][NextAccounts]_vars

-----------------------------------------------------------------------------
(* Properties of the discount engine, checked under SpecEngine *)

Previewed == preview.cart # 0
PreviewItems == carts[preview.cart].items

\* C4: whatever the discounts, apply_discounts returns
\* total_discount <= profit_before * 0.25.
GlobalCapHolds ==
    (Previewed /\ ~preview.result.raised) =>
        preview.result.total_discount * 100
            <= preview.result.profit_before * GLOBAL_MAX_PROFIT_SHARE

\* Two discounts were applied and together they use the whole global room.
GlobalCapReached ==
    /\ Previewed /\ ~preview.result.raised
    /\ Len(preview.result.applied_discounts) >= 2
    /\ preview.result.total_discount > 0
    /\ preview.result.total_discount * 100
          = preview.result.profit_before * GLOBAL_MAX_PROFIT_SHARE

\* C5: a cart whose line totals do not exceed its variant costs gets no
\* discount: total_discount = 0, discounted_total = original_total and
\* applied_discounts is empty, whatever the discounts and the coupon code.
NoProfitNoDiscount ==
    (Previewed /\ SumOriginal(PreviewItems) <= SumCost(PreviewItems, cost_price)) =>
        /\ ~preview.result.raised
        /\ preview.result.total_discount = 0
        /\ preview.result.original_total = SumOriginal(PreviewItems)
        /\ preview.result.discounted_total = preview.result.original_total
        /\ preview.result.applied_discounts = << >>

\* A break-even cart was previewed with a matching coupon while a cart_subtotal
\* discount and the coupon discount were both configured.
NoProfitCartPreviewed ==
    /\ Previewed
    /\ PreviewItems # << >>
    /\ SumOriginal(PreviewItems) = SumCost(PreviewItems, cost_price)
    /\ preview.coupon_code = "save"
    /\ \E i \in 1..Len(discounts) : discounts[i].discount_type = "cart_subtotal"
    /\ \E i \in 1..Len(discounts) : discounts[i].discount_type = "coupon"

\* C6: a cart that holds only bundle lines has profit_before = 0 and gets no
\* discount.
BundleOnlyCartHasNoProfit ==
    (/\ Previewed
     /\ PreviewItems # << >>
     /\ \A i \in 1..Len(PreviewItems) : PreviewItems[i].line_type = "bundle") =>
        /\ ~preview.result.raised
        /\ preview.result.profit_before = 0
        /\ preview.result.total_discount = 0

\* C7: every entry of applied_discounts but the last is a discount that is
\* stackable and not exclusive.
OnlyLastAppliedMayStop ==
    (Previewed /\ ~preview.result.raised) =>
        \A i \in 1..(Len(preview.result.applied_discounts) - 1) :
            LET d == discounts[preview.result.applied_discounts[i].id]
            IN  d.stackable /\ ~d.exclusive

\* An exclusive or non-stackable discount was applied first, global room was
\* left, and the other configured discount, a cart_subtotal one that runs after
\* it, does not appear.
StoppedAfterApplied ==
    /\ Previewed /\ ~preview.result.raised
    /\ Len(discounts) = 2
    /\ Len(preview.result.applied_discounts) = 1
    /\ LET a == preview.result.applied_discounts[1]
           d == discounts[a.id]
           o == discounts[3 - a.id]
       IN  /\ d.exclusive \/ ~d.stackable
           /\ o.discount_type = "cart_subtotal"
           /\ o.priority >= d.priority
           /\ o.max_profit_share > 0
    /\ preview.result.total_discount * 100
          < preview.result.profit_before * GLOBAL_MAX_PROFIT_SHARE

-----------------------------------------------------------------------------
(* Properties of create_from_cart and process_restocking *)

Done(t) == txn[t].pc = "done"
Committed(t) == orders[t].state = "committed"

\* Units of variant v that a revenue checkout of the cart lines takes.
RECURSIVE BundleNeed(_, _)
BundleNeed(bis, v) ==
    IF bis = << >> THEN 0
    ELSE (IF Head(bis).variant = v THEN Head(bis).quantity ELSE 0)
         + BundleNeed(Tail(bis), v)

RECURSIVE Need(_, _)
Need(lines, v) ==
    IF lines = << >> THEN 0
    ELSE (IF Head(lines).line_type = "variant"
          THEN (IF Head(lines).variant = v THEN Head(lines).quantity ELSE 0)
          ELSE BundleNeed(BundleItems(Head(lines).bundle), v) * Head(lines).quantity)
         + Need(Tail(lines), v)

\* The call got past the authorization gate and the shipping validation.
ValidCall(t) == Done(t) /\ txn[t].result \notin {"not_allowed", "shipping"}

\* C1: with stock 1, two revenue checkouts, each of its own cart with one
\* variant line of quantity 1: exactly one commits, the other fails with the
\* insufficient-stock error, and the stock ends at 0.
LastUnitSoldOnce ==
    (/\ stock0[1] = 1
     /\ ValidCall(1) /\ ValidCall(2)
     /\ Revenue(txn[1].order_type) /\ Revenue(txn[2].order_type)
     /\ {txn[1].cart, txn[2].cart} = {1, 2}) =>
        /\ {txn[1].result, txn[2].result} = {"ok", "stock"}
        /\ stock[1] = 0

\* C2: the stock of every variant is a non-negative integer in every state.
StockNeverNegative ==
    \A v \in Variants : stock[v] \in Nat

\* A restocking call added units of a variant and a committed revenue order
\* took the last unit of it, while the other checkout was an issue order.
StockExercised ==
    \E v \in Variants :
        /\ stock[v] = 0
        /\ \E o \in Txns : restocked[o][v] > 0
        /\ \E t \in Txns :
              /\ Committed(t) /\ Revenue(orders[t].order_type)
              /\ Need(orders[t].lines, v) > 0

\* The database state other transactions can read: rows without the
\* uncommitted writes of the running calls.
CommittedStock == [v \in Variants |-> stock[v] + txn[1].dec[v] + txn[2].dec[v]]
CommittedOrders == [t \in Txns |-> IF Committed(t) THEN orders[t] ELSE NoOrder]
CommittedProfiles == [u \in Users |-> CommittedProfile(u)]

\* Every unit missing from the initial stock was taken by a committed revenue
\* order or is held by a running call; restocking adds to it.
StockAccounted ==
    \A v \in Variants :
        CommittedStock[v]
          = stock0[v] + restocked[1][v] + restocked[2][v]
            - (IF Committed(1) /\ Revenue(orders[1].order_type)
               THEN Need(orders[1].lines, v) ELSE 0)
            - (IF Committed(2) /\ Revenue(orders[2].order_type)
               THEN Need(orders[2].lines, v) ELSE 0)

FailsForStock(t) ==
    Active(t) /\ txn'[t].pc = "done" /\ txn'[t].result = "stock"

\* C3: a revenue checkout that meets insufficient stock fails and leaves the
\* committed state as it was: no order, no order line, no stock change (also
\* for the variants it had already decremented), the same profile, the cart
\* not converted.
FailedCheckoutLeavesNothing ==
    /\ [] StockAccounted
    /\ [] (\A t \in Txns : (Done(t) /\ txn[t].result # "ok") =>
              /\ orders[t] = NoOrder
              /\ txn[t].dec = [v \in Variants |-> 0]
              /\ txn[t].locks = {}
              /\ ~txn[t].wrote_profile)
    /\ [][ \A t \in Txns : FailsForStock(t) =>
              /\ CommittedStock' = CommittedStock
              /\ stock' = [v \in Variants |-> stock[v] + txn[t].dec[v]]
              /\ CommittedOrders' = CommittedOrders
              /\ CommittedProfiles' = CommittedProfiles
              /\ (txn[t].wrote_profile =>
                    profile'[Customer(t)] = txn[t].old_profile)
              /\ carts' = carts ]_vars

\* The call on cart 3 failed at the second variant of its bundle, after it had
\* written the profile and decremented the variant line and the first variant
\* of the bundle; the stock is back at its initial value.
FailedAfterPartialDecrement ==
    \E t \in Txns :
        /\ txn[t].result = "stock"
        /\ txn[t].cart = 3 /\ txn[t].line = 2 /\ txn[t].item = 2
        /\ AnyValue(txn[t].shipping_data)
        /\ \A o \in Txns \ {t} : txn[o].pc = "idle"
        /\ stock = stock0
        /\ profile[1] = CompleteProfile("")

\* C8: restocking changes stock only for an issue order that is not yet
\* processed: nothing is restocked and nothing is flagged for a normal or
\* wholesale order, and calls on one order that run one after the other add
\* the order's quantities once.
SequentialRestockOnce ==
    \A o \in Txns :
        /\ ~is_issue_order(orders[o]) =>
              /\ ~orders[o].restock_processed
              /\ \A v \in Variants : restocked[o][v] = 0
              /\ \A r \in Restockers : rs[r].order = o => rs[r].pc = "done"
        /\ (\A r \in Restockers : rs[r].order = o => ~rs[r].concurrent) =>
              /\ \A v \in Variants : restocked[o][v] <= Need(orders[o].lines, v)
              /\ orders[o].restock_processed =>
                    \A v \in Variants : restocked[o][v] = Need(orders[o].lines, v)
              /\ \A r \in Restockers :
                    (rs[r].order = o /\ rs[r].pc = "lines") =>
                        ~orders[o].restock_processed

\* Two calls on the same issue order, one after the other, are both through and
\* the order's units were added once.
RestockedTwiceInSequence ==
    /\ rs[1].pc = "done" /\ rs[2].pc = "done"
    /\ rs[1].order = rs[2].order
    /\ ~rs[1].concurrent /\ ~rs[2].concurrent
    /\ LET o == rs[1].order
       IN  /\ is_issue_order(orders[o])
           /\ orders[o].restock_processed
           /\ \E v \in Variants :
                 restocked[o][v] > 0 /\ restocked[o][v] = Need(orders[o].lines, v)

\* C9: a created order has grand_total = items_total_after_all_discounts +
\* shipping_cost, the former being discounted_total less the clamped manual
\* discount, and shipping_cost is 0 under is_free_shipping.
GrandTotalIdentity ==
    \A t \in Txns : Committed(t) =>
        LET o == orders[t]
            discounted_total == o.items_total - o.engine_discount_total
            manual == Min2(Max2(txn[t].extra_manual_discount, 0), discounted_total)
        IN  /\ o.grand_total = (discounted_total - manual) + o.shipping_cost
            /\ txn[t].items_total_after_all_discounts = discounted_total - manual
            /\ o.discount_total = o.engine_discount_total + manual
            /\ txn[t].is_free_shipping => o.shipping_cost = 0
            /\ ~txn[t].is_free_shipping => o.shipping_cost = txn[t].shipping_cost

\* An order with an engine discount, a manual discount and free shipping asked
\* for together with a shipping cost.
DiscountedFreeShippingOrder ==
    \E t \in Txns :
        /\ Committed(t)
        /\ txn[t].is_free_shipping /\ txn[t].shipping_cost > 0
        /\ orders[t].engine_discount_total > 0
        /\ orders[t].extra_manual_discount > 0
        /\ orders[t].grand_total > 0

\* C10: a cart yields at most one order.
CartYieldsOneOrder ==
    \A t \in Txns : \A o \in Txns \ {t} :
        ~(Committed(t) /\ Committed(o) /\ orders[t].cart = orders[o].cart)

-----------------------------------------------------------------------------
(* The authorization gate and the shipping validation, checked under SpecTotals *)

Unprivileged(u) == ~UserRow(u).is_staff /\ ~UserRow(u).is_superuser

NothingWritten ==
    /\ stock = stock0
    /\ orders = [t \in Txns |-> NoOrder]
    /\ profile[1] = CompleteProfile("")
    /\ profile[2] \in {NoProfile, PartialProfile}
    /\ profile[3] = NoProfile
    /\ \A c \in Carts : ~carts[c].is_converted

\* C11: a call for a wholesale, replacement, exchange or cancellation order by
\* a creator who is neither staff nor superuser fails, with no order, no stock
\* change, no profile change and the cart not converted; a call for a normal
\* order is never rejected by the gate.
GateFailsBeforeAnyWrite ==
    \A t \in Txns : Done(t) =>
        /\ txn[t].result = "not_allowed"
             <=> /\ txn[t].order_type \in {"wholesale", "replacement", "exchange",
                                           "cancellation"}
                 /\ Unprivileged(txn[t].created_by)
        /\ txn[t].result = "not_allowed" => NothingWritten

\* A customer asked for a cancellation order with a full shipping payload and
\* was turned away.
CustomerTurnedAway ==
    \E t \in Txns :
        /\ txn[t].result = "not_allowed"
        /\ txn[t].order_type = "cancellation"
        /\ txn[t].created_by = carts[txn[t].cart].user
        /\ AnyValue(txn[t].shipping_data)

AllFiveFields(p) ==
    /\ p.city_id \notin {NoneInt, 0} /\ p.region_id \notin {NoneInt, 0}
    /\ p.city # "" /\ p.region # "" /\ p.location # ""

\* A delivery order made without shipping data used a saved profile that has
\* all five required fields.
SavedProfileWasComplete ==
    \A t \in Txns :
        (/\ txn[t].result = "ok"
         /\ txn[t].delivery_method = "delivery"
         /\ ~AnyValue(txn[t].shipping_data)) =>
            txn[t].profile.exists /\ AllFiveFields(txn[t].profile)

\* Supplied data was accepted only with all five fields, and a call that failed
\* on its shipping information wrote nothing.
SuppliedDataWasValidated ==
    \A t \in Txns :
        /\ (Done(t) /\ AnyValue(txn[t].shipping_data)
              /\ txn[t].result \notin {"not_allowed", "shipping"}) =>
                AllFiveFields(txn[t].shipping_data)
        /\ (Done(t) /\ AnyValue(txn[t].shipping_data)
              /\ ~AllFiveFields(txn[t].shipping_data)
              /\ txn[t].result # "not_allowed") => txn[t].result = "shipping"
        /\ txn[t].result = "shipping" => NothingWritten

\* C12: a delivery order without shipping data succeeds only on a saved profile
\* with all five required fields; supplied data is validated on all five
\* fields before the profile is written; a failing call writes no profile, no
\* order and no stock.
ShippingInfoComplete ==
    SavedProfileWasComplete /\ SuppliedDataWasValidated

-----------------------------------------------------------------------------
(* Properties of the tiered prices *)

\* x lies below an upper limit; None is no limit.
BelowLimit(x, max_value) == max_value = NoneInt \/ x < max_value

\* The half-open ranges [min_value, max_value) of two rows intersect.
RangesOverlap(a, b) ==
    BelowLimit(a.min_value, b.max_value) /\ BelowLimit(b.min_value, a.max_value)

InRange(tp, v) == tp.min_value <= v /\ BelowLimit(v, tp.max_value)

OfBasis(b) == {tp \in tiers : tp.basis = b}

ResolveCalled == resolved.sale_price # NoneInt

\* The basis of a call that passed exactly one measure, and the measure.
CallBasis == IF resolved.quantity # NoneInt THEN "quantity" ELSE "weight"
CallMeasure == IF resolved.quantity # NoneInt THEN resolved.quantity ELSE resolved.weight
OneMeasure == (resolved.quantity = NoneInt) # (resolved.weight = NoneInt)

\* C13: when the tiers of one basis are pairwise non-overlapping and the
\* measure of that basis lies in a tier's half-open range [min_value,
\* max_value), resolve_price returns that tier's sale price, basis and id; a
\* measure equal to a tier's max_value is not in that tier.
ResolvesToTheTierInRange ==
    (/\ ResolveCalled /\ OneMeasure
     /\ \A a \in OfBasis(CallBasis) : \A b \in OfBasis(CallBasis) \ {a} :
            ~RangesOverlap(a, b)) =>
        \A tp \in OfBasis(CallBasis) :
            InRange(tp, CallMeasure) =>
                /\ resolved.tier_id = tp.id
                /\ resolved.sale_price = tp.sale_price
                /\ resolved.basis = tp.basis

\* Two adjoining quantity tiers, and a quantity equal to the max_value of the
\* lower one resolved to the upper one.
BoundaryResolvedToNextTier ==
    /\ ResolveCalled /\ resolved.weight = NoneInt
    /\ \E lo \in tiers : \E hi \in tiers :
         /\ lo.basis = "quantity" /\ hi.basis = "quantity"
         /\ lo.max_value = hi.min_value /\ lo.min_value < lo.max_value
         /\ resolved.quantity = lo.max_value
         /\ resolved.tier_id = hi.id /\ resolved.sale_price = hi.sale_price

-----------------------------------------------------------------------------
(* Stock effects of the order types, checked under Spec *)

\* Units of variant v a call holds or has taken for good: the quantities of
\* its committed revenue order, or the decrements of the running transaction.
Taken(t, v) ==
    IF Committed(t)
    THEN IF orders[t].order_type \in {"normal", "wholesale"}
         THEN Need(orders[t].lines, v) ELSE 0
    ELSE txn[t].dec[v]

\* C14: a successful revenue checkout takes the line quantity of every variant
\* line and bundle-item quantity * line quantity of every constituent of every
\* bundle line, and nothing else: each variant's stock is its initial stock
\* less the quantities committed against it.
StockIsInitialLessCommitted ==
    \A v \in Variants :
        /\ stock[v] = stock0[v] - Taken(1, v) - Taken(2, v)
        /\ \A t \in Txns :
              (txn[t].result = "ok" /\ txn[t].order_type \in {"normal", "wholesale"}) =>
                  Taken(t, v) = Need(carts[txn[t].cart].items, v)

\* Two revenue checkouts committed against the same variant.
TwoCheckoutsOneVariant ==
    /\ Committed(1) /\ Committed(2)
    /\ Revenue(orders[1].order_type) /\ Revenue(orders[2].order_type)
    /\ Need(orders[1].lines, 1) > 0 /\ Need(orders[2].lines, 1) > 0
    /\ stock[1] = stock0[1] - 2

IssueTypes == {"replacement", "exchange", "cancellation"}

\* C15: creating a replacement, exchange or cancellation order leaves the stock
\* of every variant unchanged, also when the cart asks for more than is in
\* stock, and applies no engine discount: the applied-discount list is empty
\* and discount_total is the clamped manual discount alone.
IssueOrderTakesNothing ==
    \A t \in Txns : txn[t].order_type \in IssueTypes /\ txn[t].pc # "idle" =>
        /\ stock = stock0
        /\ txn[t].result # "stock"
        /\ orders[t].state # "none" =>
              /\ orders[t].applied_discounts = << >>
              /\ orders[t].engine_discount_total = 0
              /\ orders[t].discount_total
                   = Min2(Max2(txn[t].extra_manual_discount, 0), orders[t].items_total)

\* A cancellation order was created from the cart that asks for more units than
\* are in stock, with a manual discount, while a cart discount was active.
IssueOrderBeyondStock ==
    \E t \in Txns :
        /\ Committed(t) /\ orders[t].order_type = "cancellation"
        /\ \E v \in Variants : Need(orders[t].lines, v) > stock0[v]
        /\ discounts # << >>
        /\ orders[t].discount_total > 0

-----------------------------------------------------------------------------
(* The engine as a function, checked under SpecEngine *)

EngineAlwaysReturns ==
    (Previewed /\ compute_profit(PreviewItems, cost_price) > 0) =>
        ~preview.result.raised

\* C18: the tiers of one (variant, basis, unit) written through
\* TieredPriceSerializer have pairwise non-overlapping half-open ranges, every
\* max_value is above its min_value, and a rejected create or update stores
\* nothing.
TiersNeverOverlap ==
    /\ [](\A a \in tiers :
            /\ a.max_value = NoneInt \/ a.max_value > a.min_value
            /\ \A b \in tiers \ {a} :
                  (a.basis = b.basis /\ a.unit = b.unit) => ~RangesOverlap(a, b))
    /\ [][tier_saved' = "rejected" => tiers' = tiers]_vars

\* Two adjoining tiers of one basis and unit are stored, and the last write was
\* turned down.
AdjoiningTiersAndRejection ==
    /\ tier_saved = "rejected"
    /\ \E lo \in tiers : \E hi \in tiers :
         /\ lo.basis = hi.basis /\ lo.unit = hi.unit
         /\ lo.max_value = hi.min_value /\ lo.max_value # NoneInt
         /\ hi.max_value = NoneInt

Purchased(order_line_id) ==
    (CHOOSE l \in PurchasedLines : l.id = order_line_id).quantity

\* C19: no stored return request has a line that asks for more than the
\* quantity purchased on the order line it references.
NoReturnBeyondPurchase ==
    \A i \in 1..Len(return_requests) :
        \A j \in 1..Len(return_requests[i].lines) :
            return_requests[i].lines[j].requested_quantity
                <= Purchased(return_requests[i].lines[j].order_line_id)

\* C20: no stored return request has two lines that reference the same order
\* line.
NoReturnLineTwice ==
    \A i \in 1..Len(return_requests) :
        \A j \in 1..Len(return_requests[i].lines) :
            \A k \in 1..Len(return_requests[i].lines) :
                j # k => return_requests[i].lines[j].order_line_id
                            # return_requests[i].lines[k].order_line_id

-----------------------------------------------------------------------------
(* Activation and the attempt cap, checked under SpecAccounts *)

\* C21: the customer is active only after a successful verification, and no
\* OTPVerification row lets more than one verification succeed.
ActivationOtpUsedOnce ==
    /\ account = "active" => \E id \in DOMAIN successes : successes[id] >= 1
    /\ \A id \in DOMAIN successes : successes[id] <= 1

\* Calls that carried a code matching no OTP, were let through the attempt
\* gate and have failed in verify_otp, their failure not yet recorded.
FailedUnrecorded ==
    {p \in Verifiers : req[p].pc = "count" /\ req[p].code = WrongCode}

\* C28: the failures recorded for the customer together with the wrong-code
\* calls evaluated and not yet recorded never exceed MAX_VERIFY_ATTEMPTS.
WrongCodesCapped ==
    CachedAttempts + Cardinality(FailedUnrecorded) <= MAX_VERIFY_ATTEMPTS

-----------------------------------------------------------------------------
(* Lock order of concurrent checkouts, checked under SpecLocks *)

\* The variant whose row the next statement of the line loop locks.
NextLocked(t) ==
    LET item == CartItems(t)[txn[t].line]
    IN  IF item.line_type = "variant" THEN item.variant
        ELSE BundleItems(item.bundle)[txn[t].item].variant

\* The call stands at a select_for_update whose row another call has locked.
WaitsForLock(t) ==
    /\ txn[t].pc = "lines"
    /\ txn[t].line <= Len(CartItems(t))
    /\ \/ CartItems(t)[txn[t].line].line_type = "variant"
       \/ Revenue(txn[t].order_type)
    /\ LockedByOther(t, NextLocked(t))

\* C22: two revenue create_from_cart calls never wait for each other's row
\* locks.
CheckoutsNeverDeadlock ==
    ~\E t \in Txns : \E o \in Txns \ {t} :
        /\ Revenue(txn[t].order_type) /\ Revenue(txn[o].order_type)
        /\ WaitsForLock(t) /\ WaitsForLock(o)

-----------------------------------------------------------------------------
(* Interleaved process_restocking calls, checked under SpecRestock *)

\* C23: whatever the interleaving of process_restocking calls on an order,
\* restocking never adds more units of a variant than the order's lines hold,
\* and an order flagged as processed has had exactly those units added.
RestockedExactlyOnce ==
    \A o \in Txns : \A v \in Variants :
        /\ restocked[o][v] <= Need(orders[o].lines, v)
        /\ orders[o].restock_processed => restocked[o][v] = Need(orders[o].lines, v)

-----------------------------------------------------------------------------
(* The manual discount, checked under SpecTotals *)

\* C24: in a created order the manual discount counted lies in
\* [0, discounted_total], is 0 for a negative input and discounted_total for
\* an input above it, discount_total is the engine discount plus that amount,
\* items_total_after_all_discounts is not negative and grand_total is not
\* below shipping_cost.
ManualDiscountWithinTotal ==
    \A t \in Txns : Committed(t) =>
        LET o == orders[t]
            asked == txn[t].extra_manual_discount
            discounted_total == o.items_total - o.engine_discount_total
            counted == o.discount_total - o.engine_discount_total
        IN  /\ 0 <= counted /\ counted <= discounted_total
            /\ asked < 0 => counted = 0
            /\ asked > discounted_total => counted = discounted_total
            /\ (0 <= asked /\ asked <= discounted_total) => counted = asked
            /\ txn[t].items_total_after_all_discounts >= 0
            /\ o.grand_total >= o.shipping_cost

\* An order was created although the manual discount asked for was above the
\* discounted total, and it came out with nothing left to pay for the items.
ManualDiscountAboveTotal ==
    \E t \in Txns :
        /\ Committed(t)
        /\ txn[t].extra_manual_discount > orders[t].items_total
        /\ orders[t].items_total > 0
        /\ orders[t].discount_total = orders[t].items_total
        /\ orders[t].grand_total = orders[t].shipping_cost

-----------------------------------------------------------------------------
(* The amounts of the applied discounts, checked under SpecEngine *)

RECURSIVE AppliedSum(_, _)
AppliedSum(applied, n) ==
    IF n = 0 THEN 0 ELSE applied[n].applied_amount + AppliedSum(applied, n - 1)

\* The raw amount of a discount that acts on the cart total.
RawOnTotal(d, current_total) ==
    IF d.discount_type \in {"cart_subtotal", "coupon", "abandoned_cart"}
    THEN IF d.value_type = "percent" THEN (current_total * d.value) \div 100
         ELSE Min2(Money(d.value), current_total)
    ELSE 0

\* min(raw amount, profit_before * min(max_profit_share, 0.25), global room left)
CappedAmount(d, current_total, used, profit_before) ==
    Min2(Min2(RawOnTotal(d, current_total),
              (profit_before * Min2(d.max_profit_share, GLOBAL_MAX_PROFIT_SHARE)) \div 100),
         (profit_before * GLOBAL_MAX_PROFIT_SHARE) \div 100 - used)

PreviewEligible ==
    eligible_discounts(carts[preview.cart], preview.coupon_code, discounts, cost_price, now)

\* How many applied entries belong to discounts ordered before place k.
AppliedBefore(k) ==
    Cardinality({i \in 1..Len(preview.result.applied_discounts) :
        \E j \in 1..(k - 1) :
            PreviewEligible[j].id = preview.result.applied_discounts[i].id})

\* C25: the applied discounts come in ascending priority, each with the amount
\* min(raw amount on the running total, profit_before * min(max_profit_share,
\* 0.25), global room left) > 0; an eligible discount is left out only when
\* that amount is <= 0, when the global room is used up or after a discount
\* that stops the loop; one 50% cart_subtotal discount with max_profit_share
\* 1.00 on a cart of price 100 and cost 50 gives 12.50 and 87.50.
AmountsFollowTheCaps ==
    (Previewed /\ ~preview.result.raised /\ preview.result.profit_before > 0) =>
        LET r == preview.result
            ap == r.applied_discounts
            el == PreviewEligible
        IN  /\ \A i \in 1..Len(ap) : \A j \in (i + 1)..Len(ap) :
                  ap[i].priority <= ap[j].priority
            /\ \A i \in 1..Len(ap) :
                  /\ ap[i].applied_amount > 0
                  /\ ap[i].applied_amount =
                        CappedAmount(discounts[ap[i].id],
                                     r.original_total - AppliedSum(ap, i - 1),
                                     AppliedSum(ap, i - 1), r.profit_before)
            /\ \A k \in 1..Len(el) :
                  (\A i \in 1..Len(ap) : ap[i].id # el[k].id) =>
                      LET n == AppliedBefore(k)
                      IN  \/ CappedAmount(el[k], r.original_total - AppliedSum(ap, n),
                                          AppliedSum(ap, n), r.profit_before) <= 0
                          \/ \E i \in 1..n : \/ discounts[ap[i].id].exclusive
                                             \/ ~discounts[ap[i].id].stackable
            /\ (/\ PreviewItems = << VariantLine(1, 1, Money(100)) >>
                /\ cost_price[1] = Money(50)
                /\ Len(discounts) = 1
                /\ discounts[1].discount_type = "cart_subtotal"
                /\ discounts[1].value_type = "percent" /\ discounts[1].value = 50
                /\ discounts[1].max_profit_share = 100) =>
                    /\ r.total_discount = Money(25) \div 2
                    /\ r.discounted_total = Money(175) \div 2

\* A discount with no profit share was passed over and the 50% discount
\* ordered after it was applied with 12.50 on the cart of price 100 and cost 50.
SkippedThenCapped ==
    /\ Previewed /\ ~preview.result.raised
    /\ PreviewItems = << VariantLine(1, 1, Money(100)) >>
    /\ cost_price[1] = Money(50)
    /\ Len(PreviewEligible) = 2
    /\ PreviewEligible[1].max_profit_share = 0
    /\ PreviewEligible[1].priority < PreviewEligible[2].priority
    /\ Len(preview.result.applied_discounts) = 1
    /\ preview.result.applied_discounts[1].id = PreviewEligible[2].id
    /\ preview.result.total_discount = Money(25) \div 2
    /\ preview.result.discounted_total = Money(175) \div 2

-----------------------------------------------------------------------------
(* The candidate set of resolve_price, checked under SpecResolve *)

MeasureSupplied == resolved.quantity # NoneInt \/ resolved.weight # NoneInt

\* The tiers whose basis is that of a measure the call supplied.
SuppliedCandidates ==
    {tp \in tiers : \/ resolved.quantity # NoneInt /\ tp.basis = "quantity"
                    \/ resolved.weight # NoneInt /\ tp.basis = "weight"}

KeyAtMost(a, b) ==
    \/ a.min_value < b.min_value
    \/ a.min_value = b.min_value /\ a.sale_price <= b.sale_price

\* The candidates whose half-open range contains their measure.
ContainingCandidates ==
    {tp \in SuppliedCandidates :
        InRange(tp, IF tp.basis = "quantity" THEN resolved.quantity ELSE resolved.weight)}

\* C26: for a tiered variant with at least one tier, a call that supplies a
\* quantity and/or a weight returns a tier of the candidate set (the tiers
\* whose basis is that of a supplied measure): the first candidate in
\* (min_value, sale_price) order whose half-open range contains the measure,
\* or, when none contains it, the candidate with the smallest min_value.  The
\* tier with the lowest sale price is returned only when neither measure is
\* supplied.
ReturnsATierOfTheCandidates ==
    (ResolveCalled /\ tiers # {} /\ MeasureSupplied) =>
        \E tp \in SuppliedCandidates :
            /\ resolved.tier_id = tp.id
            /\ resolved.sale_price = tp.sale_price
            /\ resolved.basis = tp.basis
            /\ IF ContainingCandidates # {}
               THEN /\ tp \in ContainingCandidates
                    /\ \A o \in ContainingCandidates : KeyAtMost(tp, o)
               ELSE \A o \in SuppliedCandidates : KeyAtMost(tp, o)

\* The same statement for the calls whose candidate set is not empty.
ReturnsATierOfNonEmptyCandidates ==
    (ResolveCalled /\ SuppliedCandidates # {}) =>
        \E tp \in SuppliedCandidates :
            /\ resolved.tier_id = tp.id
            /\ resolved.sale_price = tp.sale_price
            /\ resolved.basis = tp.basis
            /\ IF ContainingCandidates # {}
               THEN /\ tp \in ContainingCandidates
                    /\ \A o \in ContainingCandidates : KeyAtMost(tp, o)
               ELSE \A o \in SuppliedCandidates : KeyAtMost(tp, o)

\* A quantity was supplied for a variant that has weight tiers only, and the
\* call returned the cheapest weight tier.
QuantityPricedByWeightTier ==
    /\ ResolveCalled /\ tiers # {}
    /\ resolved.quantity # NoneInt /\ resolved.weight = NoneInt
    /\ \A tp \in tiers : tp.basis = "weight"
    /\ resolved.basis = "weight"

\* No candidate contains the measure and the candidate with the smallest
\* min_value was returned.
FellBackToSmallestMinimum ==
    /\ ResolveCalled /\ SuppliedCandidates # {} /\ ContainingCandidates = {}
    /\ Cardinality(SuppliedCandidates) = 2
    /\ \E tp \in SuppliedCandidates :
          resolved.tier_id = tp.id /\ \A o \in SuppliedCandidates \ {tp} : tp.min_value < o.min_value


-----------------------------------------------------------------------------
(* Eligibility of the applied discounts, checked under SpecEngine *)

\* The Discount row an applied entry was made from.
RowOf(entry) == discounts[entry.id]

WithinSchedule(d) ==
    /\ d.starts_at = NoneInt \/ d.starts_at <= now
    /\ d.ends_at = NoneInt \/ now <= d.ends_at

CouponMatches(d) ==
    d.discount_type = "coupon" =>
        /\ preview.coupon_code # ""
        /\ Lower(d.code) = Lower(preview.coupon_code)

SubtotalMet(d) ==
    d.min_cart_subtotal = NoneInt \/ SumOriginal(PreviewItems) >= d.min_cart_subtotal

IdleLongEnough(d) ==
    (d.discount_type = "abandoned_cart" /\ d.min_abandoned_minutes # NoneInt) =>
        now - carts[preview.cart].updated_at >= d.min_abandoned_minutes

\* C27: a discount appears in applied_discounts only if it passes every
\* eligibility gate: it is active and now lies within [starts_at, ends_at]; a
\* coupon's code was supplied and equals the discount's code ignoring case;
\* min_cart_subtotal, when set, is met by the cart's original total; and for an
\* abandoned_cart discount with min_abandoned_minutes the cart was last updated
\* at least that many minutes ago.
OnlyEligibleDiscountsApplied ==
    Previewed =>
        \A i \in 1..Len(preview.result.applied_discounts) :
            LET d == RowOf(preview.result.applied_discounts[i])
            IN  /\ d.is_active
                /\ WithinSchedule(d)
                /\ CouponMatches(d)
                /\ SubtotalMet(d)
                /\ IdleLongEnough(d)

Gated(d) ==
    \/ ~d.is_active
    \/ d.starts_at # NoneInt
    \/ d.ends_at # NoneInt
    \/ d.min_cart_subtotal # NoneInt
    \/ d.discount_type \in {"coupon", "abandoned_cart"}

\* Of two discounts with a condition, the one that fails its gate was left out
\* and the one that passes was applied.
GateLetOneThrough ==
    /\ Previewed /\ Len(discounts) = 2
    /\ Gated(discounts[1]) /\ Gated(discounts[2])
    /\ Len(preview.result.applied_discounts) = 1
    /\ \E i \in 1..2 :
          ~(discounts[i].is_active /\ WithinSchedule(discounts[i])
            /\ SubtotalMet(discounts[i]) /\ IdleLongEnough(discounts[i]))


-----------------------------------------------------------------------------
(* Order lines of a created order, checked under SpecTotals *)

RECURSIVE SumSubtotals(_)
SumSubtotals(lines) ==
    IF lines = << >> THEN 0 ELSE Head(lines).subtotal + SumSubtotals(Tail(lines))

\* C29: an order created by create_from_cart, of any order type, has exactly
\* one OrderLine per cart line, a bundle line giving one line for the bundle as
\* a whole and none for its constituents; each line carries the quantity and
\* the unit_price of its cart line and subtotal = unit_price * quantity, and
\* items_total is the sum of the lines' subtotals.
OneOrderLinePerCartLine ==
    \A t \in Txns : Committed(t) =>
        LET items == carts[orders[t].cart].items
            lines == orders[t].lines
        IN  /\ Len(lines) = Len(items)
            /\ \A i \in 1..Len(lines) :
                  /\ lines[i].line_type = items[i].line_type
                  /\ lines[i].variant = items[i].variant
                  /\ lines[i].bundle = items[i].bundle
                  /\ lines[i].quantity = items[i].quantity
                  /\ lines[i].unit_price = items[i].unit_price
                  /\ lines[i].subtotal = items[i].unit_price * items[i].quantity
            /\ orders[t].items_total = SumSubtotals(lines)

\* An order of one of the types was created from the cart with a variant line
\* of quantity 2 and a bundle line: two lines, items_total 220.00.
OrderOfVariantAndBundleLine(types) ==
    \E t \in Txns :
        /\ Committed(t) /\ orders[t].order_type \in types
        /\ Len(orders[t].lines) = 2
        /\ orders[t].lines[1].line_type = "variant" /\ orders[t].lines[1].quantity = 2
        /\ orders[t].lines[2].line_type = "bundle"
        /\ orders[t].items_total = Money(220)

IssueOrderOfVariantAndBundleLine == OrderOfVariantAndBundleLine(IssueTypes)


-----------------------------------------------------------------------------
(* Accounting identities of the engine result, checked under SpecEngine *)

\* C30: every result of apply_discounts has total_discount equal to the sum of
\* the applied_amount entries and to original_total - discounted_total, with
\* total_discount >= 0 and discounted_total >= 0; when profit_before > 0,
\* profit_after = profit_before - total_discount, which is at least three
\* quarters of profit_before.
ResultAccountsBalance ==
    (Previewed /\ ~preview.result.raised) =>
        LET r == preview.result
        IN  /\ r.total_discount = AppliedSum(r.applied_discounts, Len(r.applied_discounts))
            /\ r.total_discount = r.original_total - r.discounted_total
            /\ 0 <= r.total_discount
            /\ r.discounted_total >= 0
            /\ r.profit_before > 0 =>
                  /\ r.profit_after = r.profit_before - r.total_discount
                  /\ 4 * r.profit_after >= 3 * r.profit_before

\* Two discounts were applied to a cart with profit, the second one for less
\* than the first.
TwoAmountsAccounted ==
    /\ Previewed /\ ~preview.result.raised
    /\ preview.result.profit_before > 0
    /\ Len(preview.result.applied_discounts) = 2
    /\ preview.result.applied_discounts[2].applied_amount
         < preview.result.applied_discounts[1].applied_amount
    /\ preview.result.profit_after < preview.result.profit_before


====
